---- MODULE Spec2Model ----
(***************************************************************************)
(* The entry / topic API of the capx-assignment admin portal:              *)
(*   pages/api/entries  (GET, POST, DELETE)  src/src/pages/api/entries.ts  *)
(*   pages/api/topics   (GET, POST, PATCH, DELETE)                         *)
(*                                  src/src/pages/api/login.ts:355-593     *)
(* over the two Firestore collections "topics" and "entries".              *)
(*                                                                         *)
(* Every request is served by one process.  A handler runs without         *)
(* interruption up to its next `await` on the store; each awaited store    *)
(* operation is one atomic step, and any other request may take steps      *)
(* between two awaits of the same handler.                                 *)
(***************************************************************************)
EXTENDS Integers, Sequences, FiniteSets, TLC

\* ------------------------------------------------------------------ bounds
NumProcs == 2
MaxTopics == 2
MaxEntries == 2
\* Entries stored where listings are paged.
MaxListed == 3
MaxClock == 1
MaxLen == 3
MaxRows == 2
MaxFetches == 3
MaxPage == 2
MaxTimers == 2
TicksPerTimeout == 12
MaxRenders == 3
MaxDuration == 2

\* ------------------------------------------------------- program constants
DEFAULT_PAGE_SIZE == 10
MAX_PAGE_SIZE == 100
INACTIVITY_TIMEOUT == 60000   \* 60 * 1000 milliseconds

Procs == 1..NumProcs

\* --------------------------------------------------------------- input sets
\* Characters of a raw query value: a sign, digits, and one non-digit.
Chars == {"-", "0", "1", "9", "a"}
Digits == {"0", "1", "2", "9"}

RECURSIVE StringsUpTo(_)
StringsUpTo(n) ==
  IF n = 0 THEN {<<>>}
  ELSE LET S == StringsUpTo(n - 1)
       IN  S \cup {Append(s, c) : s \in {t \in S : Len(t) = n - 1}, c \in Chars}

\* Every raw value of a query parameter up to MaxLen characters; <<>> stands
\* for an absent parameter and for the empty string alike (parseInt gives NaN
\* for both).
RawStrings == StringsUpTo(MaxLen)

\* Topic ids a request may name: 0 stands for a missing / empty id, the
\* others may or may not denote a stored topic at the time of the request.
TopicIdArgs == 0..MaxTopics
EntryIdArgs == 0..MaxEntries

Wallets == {"0xA", "0xB"}
Emails == {"a@x.io", "b@x.io"}
Telegrams == {"tg_a", "tg_b"}
Platforms == {"pf_a", "pf_b"}
TopicNames == {<<"A", "b">>}

\* Candidate entries (request bodies of POST /entries).
AllCandidates ==
  [topicId : TopicIdArgs, topicName : TopicNames,
   telegramUsername : Telegrams, platformUsername : Platforms,
   walletAddress : Wallets, discordUsername : {""}, email : Emails \cup {"not-an-email"}]

\* The candidates used where requests run concurrently: one topic-1 profile,
\* one sharing only its wallet, one sharing nothing, one for another topic.
FewCandidates ==
  {c \in AllCandidates :
     /\ c.topicId \in {1, 2}
     /\ <<c.topicId, c.walletAddress, c.email, c.telegramUsername, c.platformUsername>> \in
          { <<1, "0xA", "a@x.io", "tg_a", "pf_a">>,
            <<1, "0xA", "b@x.io", "tg_b", "pf_b">>,
            <<1, "0xB", "b@x.io", "tg_b", "pf_a">>,
            <<2, "0xA", "a@x.io", "tg_a", "pf_a">> }}

\* Raw page and limit values of the listing requests whose pages are compared:
\* absent, "1", "2" and "9".
ListRaws == {<<>>, <<"1">>, <<"2">>, <<"9">>}

\* Candidate entries of the listed collection: two of topic 1 (named "Ab") and
\* one of topic 2 (named "c").
ListCandidates ==
  { [topicId |-> 1, topicName |-> <<"A", "b">>, telegramUsername |-> "tg_a",
     platformUsername |-> "pf_a", walletAddress |-> "0xA", discordUsername |-> "",
     email |-> "a@x.io"],
    [topicId |-> 1, topicName |-> <<"A", "b">>, telegramUsername |-> "tg_b",
     platformUsername |-> "pf_b", walletAddress |-> "0xB", discordUsername |-> "",
     email |-> "b@x.io"],
    [topicId |-> 2, topicName |-> <<"c">>, telegramUsername |-> "tg_a",
     platformUsername |-> "pf_a", walletAddress |-> "0xA", discordUsername |-> "",
     email |-> "a@x.io"] }

\* Request bodies of POST /topics; isActive is a key the schema does not know,
\* absent or sent as false.
TopicBodies ==
  [name : {"", "Alpha"}, description : {"about alpha"}, isActive : {"absent", "false"}]

\* Bodies of POST /entries sent without the form: platform usernames the
\* checker accepts ("pf_a"), and ones it rejects as too short ("ab") or as
\* starting with a digit ("9abc").
DirectCandidates ==
  { [topicId |-> 1, topicName |-> <<"A", "b">>, telegramUsername |-> "tg_a",
     platformUsername |-> u, walletAddress |-> "0xA", discordUsername |-> "",
     email |-> "a@x.io"] : u \in {"pf_a", "ab", "9abc"} }

\* What the user may have typed into EntryForm when pressing submit.
FormInputs ==
  [telegramUsername : {"", "@tg_a"}, platformUsername : {"pf_a", "ab", "9abc"},
   walletAddress : {"0xB"}, discordUsername : {""}, email : {"b@x.io"}]

\* Messages of a rejected store operation (the text decides handleAuthError).
StoreErrors == {"unavailable", "deadline expired", "Invalid token state"}

NoReq == [ep |-> "none"]
NoResp == [status |-> 0]
NoLocal == [at |-> "none"]

\* Field values the validators are run on: empty, well-formed, ill-formed and
\* over-long ones.
Repeat(c, n) == [i \in 1..n |-> c]
TelegramValues == {<<>>, <<"@", "a">>, <<"a">>, <<"@", "-">>, <<"@">> \o Repeat("a", 32)}
PlatformValues == {<<>>, <<"a", "b">>, <<"a", "b", "c">>, <<"9", "a", "b">>, Repeat("a", 51)}
WalletValues == {"", "0xA", "zz"}
DiscordValues == {<<>>, <<"a", "#">>, <<"-">>, Repeat("a", 33)}
EmailValues ==
  {<<>>, <<"a", "@", "x", ".", "i", "o">>, <<"a", "@", "x", ".", "i">>, <<"a", "@", "x">>}

NoValidation == [ran |-> FALSE]

\* Entries a list component may hold when its export button is pressed: with
\* and without a discordUsername, submitted in different minutes.
ExportEntries ==
  UNION { { [topicName |-> "Alpha", telegramUsername |-> tg, platformUsername |-> "pf_a",
             walletAddress |-> "0xA", email |-> "a@x.io", createdAt |-> at],
            [topicName |-> "Alpha", telegramUsername |-> tg, platformUsername |-> "pf_a",
             walletAddress |-> "0xA", discordUsername |-> "dc#1", email |-> "a@x.io",
             createdAt |-> at] } : tg \in {"tg_a", "tg_b"}, at \in {59999, 60000} }

RECURSIVE ListsUpTo(_, _)
ListsUpTo(S, n) ==
  IF n = 0 THEN {<<>>}
  ELSE LET L == ListsUpTo(S, n - 1)
       IN  L \cup {Append(l, e) : l \in {m \in L : Len(m) = n - 1}, e \in S}

NoExport == [component |-> "none"]

\* EntriesList after its first render and effects, for an authenticated
\* administrator: the debounce timer of the initial topicName is pending and
\* the first fetch is in flight. Fetches are numbered in the order they are
\* issued.
MountedList ==
  [topicName |-> "", debouncedTopicName |-> "", timer |-> TRUE, page |-> 1,
   shown |-> [id |-> 0, topicName |-> "", page |-> 1],
   issued |-> 1, inflight |-> {[id |-> 1, topicName |-> "", page |-> 1]}]

\* The clock of the browser advances in steps of this many milliseconds.
TickLength == INACTIVITY_TIMEOUT \div TicksPerTimeout

\* AuthProvider before anyone has signed in: no timer was ever set. `timers`
\* maps the id of each pending timeout to the milliseconds left, `idle` is the
\* time since the last activity event (counted up to INACTIVITY_TIMEOUT), and
\* `signingOut` says that a call of signOut has not settled.
SignedOut ==
  [isAuthenticated |-> FALSE, timers |-> <<>>, ref |-> 0, idle |-> 0,
   signingOut |-> FALSE]

\* SelfDestruct after its first render and effect: visible, the timer started
\* and the first animation frame requested. `elapsed` is Date.now() -
\* startTimeRef.current, `calls` counts the invocations of onDestruct and
\* `renders` the re-renders by the parent.
MountedSelfDestruct ==
  [duration |-> MaxDuration, onDestruct |-> "f", isVisible |-> TRUE, frame |-> TRUE,
   elapsed |-> 0, timeLeft |-> MaxDuration, calls |-> 0, renders |-> 0]

\* EntryForm as mounted: empty fields, no errors, nothing in flight.
NoFormData ==
  [telegramUsername |-> "", platformUsername |-> "", walletAddress |-> "",
   discordUsername |-> "", email |-> ""]
NoForm ==
  [at |-> "editing", formData |-> NoFormData, errors |-> <<>>,
   submitError |-> "", isSuccess |-> FALSE, proc |-> 0]


\* ------------------------------------------------------------ pure helpers
Max(a, b) == IF a >= b THEN a ELSE b
Min(a, b) == IF a <= b THEN a ELSE b

NaN == [nan |-> TRUE, val |-> 0]
Num(n) == [nan |-> FALSE, val |-> n]

DigitVal(c) == CASE c = "0" -> 0 [] c = "1" -> 1 [] c = "2" -> 2 [] c = "9" -> 9 [] OTHER -> 0

\* The longest prefix of s made of decimal digits.
RECURSIVE DigitPrefix(_)
DigitPrefix(s) ==
  IF s = <<>> \/ Head(s) \notin Digits THEN <<>>
  ELSE <<Head(s)>> \o DigitPrefix(Tail(s))

RECURSIVE DecimalValue(_)
DecimalValue(ds) ==
  IF ds = <<>> THEN 0
  ELSE 10 * DecimalValue(SubSeq(ds, 1, Len(ds) - 1)) + DigitVal(ds[Len(ds)])

\* JavaScript parseInt(string) in radix 10: an optional sign, then the longest
\* run of digits; NaN when there is no digit (also for undefined and "").
ParseInt(s) ==
  LET neg == s # <<>> /\ Head(s) = "-"
      rest == IF neg THEN Tail(s) ELSE s
      ds == DigitPrefix(rest)
  IN  IF ds = <<>> THEN NaN
      ELSE Num(IF neg THEN 0 - DecimalValue(ds) ELSE DecimalValue(ds))

\* JavaScript `x || d` on a number: NaN and 0 are falsy.
OrDefault(x, d) == IF x.nan \/ x.val = 0 THEN d ELSE x.val

\* Mutant: the parsed values are used without the floor and the clamp.
getPaginationParams_Unclamped(rawPage, rawLimit) ==
  LET page == OrDefault(ParseInt(rawPage), 1)
      limit == OrDefault(ParseInt(rawLimit), DEFAULT_PAGE_SIZE)
  IN  [page |-> page, limit |-> limit, offset |-> (page - 1) * limit]

getPaginationParams(rawPage, rawLimit) ==
  LET page == Max(1, OrDefault(ParseInt(rawPage), 1))
      limit == Min(MAX_PAGE_SIZE, Max(1, OrDefault(ParseInt(rawLimit), DEFAULT_PAGE_SIZE)))
  IN  [page |-> page, limit |-> limit, offset |-> (page - 1) * limit]

\* Mutant: the quotient is rounded down.
CeilDiv_Floor(total, limit) == total \div limit

\* Math.ceil(total / limit) for total >= 0, limit >= 1.
CeilDiv(total, limit) == (total + limit - 1) \div limit

\* String.prototype.toLowerCase, per character.
LowerChar(c) == CASE c = "A" -> "a" [] c = "B" -> "b" [] OTHER -> c
toLowerCase(s) == [i \in 1..Len(s) |-> LowerChar(s[i])]

\* String.prototype.includes.
includes(s, t) == \E i \in 0..(Len(s) - Len(t)) : SubSeq(s, i + 1, i + Len(t)) = t

\* Mutant: the end index is taken as inclusive.
slice_Inclusive(s, from, to) == SubSeq(s, from + 1, Min(to + 1, Len(s)))

\* Array.prototype.slice(from, to).
slice(s, from, to) == SubSeq(s, from + 1, Min(to, Len(s)))

\* ------------------------------------------------------------ field values
\* The characters of the username and e-mail tokens that requests carry.
Spelling(u) ==
  CASE u = "" -> <<>>
    [] u = "tg_a" -> <<"t", "g", "_", "a">>
    [] u = "tg_b" -> <<"t", "g", "_", "b">>
    [] u = "@tg_a" -> <<"@", "t", "g", "_", "a">>
    [] u = "pf_a" -> <<"p", "f", "_", "a">>
    [] u = "pf_b" -> <<"p", "f", "_", "b">>
    [] u = "ab" -> <<"a", "b">>
    [] u = "9abc" -> <<"9", "a", "b", "c">>
    [] u = "a@x.io" -> <<"a", "@", "x", ".", "i", "o">>
    [] u = "b@x.io" -> <<"b", "@", "x", ".", "i", "o">>
    [] u = "not-an-email" ->
         <<"n", "o", "t", "-", "a", "n", "-", "e", "m", "a", "i", "l">>

\* The character class [a-zA-Z0-9_].
Word ==
  {"a", "b", "c", "e", "f", "g", "i", "l", "m", "n", "o", "p", "t", "x"}
    \cup Digits \cup {"_"}

\* validatePlatformUsername of the Platform-Username Checker.
validatePlatformUsername(username) ==
  LET hasSpecialChars ==
        \E i \in 1..Len(username) : username[i] \notin Word \cup {"."}
      isInvalidLength == Len(username) < 3 \/ Len(username) > 20
      startsWithNumber == Len(username) > 0 /\ username[1] \in Digits
  IN  ~hasSpecialChars /\ ~isInvalidLength /\ ~startsWithNumber

\* POST /api/validate-platform-username, on the username of the request body.
ValidatePlatformUsernameApi(username) ==
  IF username = ""
  THEN [status |-> 400, error |-> "Username is required"]
  ELSE [status |-> 200, isValid |-> validatePlatformUsername(Spelling(username))]

\* isAddress of viem, on the wallet tokens.
isAddress(address) == address \in Wallets

\* The e-mail pattern of the form, /^[^\s@]+@[^\s@]+\.[^\s@]+$/: one "@",
\* something before it, and after it a dot with something on both sides.
EmailPattern(s) ==
  \E i \in 2..Len(s) :
    /\ s[i] = "@"
    /\ \A k \in 1..Len(s) : k # i => s[k] \notin {"@", " "}
    /\ \E j \in (i + 2)..(Len(s) - 1) : s[j] = "."

\* validateForm of EntryForm, on the characters of the fields: the error
\* mapping, one key per failing field.
validateForm(formData) ==
  LET tg == formData.telegramUsername
      pf == formData.platformUsername
      dc == formData.discordUsername
      em == formData.email
      all ==
        [telegramUsername |->
           IF tg = <<>> THEN "Telegram username is required"
           ELSE IF tg[1] # "@" THEN "Telegram username must start with '@'"
           ELSE IF Len(tg) < 2 \/ \E i \in 2..Len(tg) : tg[i] \notin Word
             THEN "Telegram username can only contain letters, numbers, and underscores after the '@'"
           ELSE IF Len(tg) > 32 THEN "Telegram username is too long"
           ELSE "",
         platformUsername |->
           IF pf = <<>> THEN "Platform username is required"
           ELSE IF Len(pf) > 50 THEN "Platform username is too long"
           ELSE "",
         walletAddress |->
           IF formData.walletAddress = "" THEN "Wallet address is required"
           ELSE IF ~isAddress(formData.walletAddress) THEN "Invalid Ethereum wallet address"
           ELSE "",
         discordUsername |->
           IF dc = <<>> THEN ""
           ELSE IF \E i \in 1..Len(dc) : dc[i] \notin Word \cup {"#"}
             THEN "Discord username can only contain letters, numbers, underscores, and #"
           ELSE IF Len(dc) > 32 THEN "Discord username is too long"
           ELSE "",
         email |->
           IF em = <<>> THEN "Email is required"
           ELSE IF ~EmailPattern(em) THEN "Invalid email address"
           ELSE IF Len(em) > 254 THEN "Email address is too long"
           ELSE ""]
      failing == {f \in DOMAIN all : all[f] # ""}
  IN  [f \in failing |-> all[f]]

\* The form's fields as the characters typed (the wallet stays a token).
Spelled(formData) ==
  [telegramUsername |-> Spelling(formData.telegramUsername),
   platformUsername |-> Spelling(formData.platformUsername),
   walletAddress |-> formData.walletAddress,
   discordUsername |-> Spelling(formData.discordUsername),
   email |-> Spelling(formData.email)]

\* The field validators of EntryForm; "" stands for null (the field passes).
validateTelegramUsername(value) ==
  IF value = <<>> THEN "Telegram username is required"
  ELSE IF value[1] # "@" THEN "Telegram username must start with '@'"
  ELSE IF Len(value) < 2 \/ \E i \in 2..Len(value) : value[i] \notin Word
    THEN "Telegram username can only contain letters, numbers, and underscores after the '@'"
  ELSE IF Len(value) > 32 THEN "Telegram username is too long"
  ELSE ""

validatePlatformUsernameField(value) ==
  IF value = <<>> THEN "Platform username is required"
  ELSE IF \E i \in 1..Len(value) : value[i] \notin Word \cup {"."}
    THEN "Username can only contain letters, numbers, underscores, and dots"
  ELSE IF Len(value) < 3 \/ Len(value) > 20
    THEN "Username must be between 3 and 20 characters"
  ELSE IF value[1] \in Digits THEN "Username cannot start with a number"
  ELSE ""

validateWalletAddress(value) ==
  IF value = "" THEN "Wallet address is required"
  ELSE IF ~isAddress(value) THEN "Invalid Ethereum wallet address"
  ELSE ""

validateDiscordUsername(value) ==
  IF value = <<>> THEN ""
  ELSE IF \E i \in 1..Len(value) : value[i] \notin Word \cup {"#"}
    THEN "Discord username can only contain letters, numbers, underscores, and #"
  ELSE IF Len(value) > 32 THEN "Discord username is too long"
  ELSE ""

\* value.split('@')[1].split('.').pop(), as its length.
ExtensionLength(value) ==
  LET at == CHOOSE i \in 1..Len(value) :
              value[i] = "@" /\ \A k \in 1..(i - 1) : value[k] # "@"
      ends == {i \in (at + 1)..Len(value) : value[i] \in {"@", "."}}
      stop == IF \E i \in ends : value[i] = "@"
              THEN CHOOSE i \in ends : value[i] = "@" /\ \A k \in ends : value[k] = "@" => i <= k
              ELSE Len(value) + 1
      dots == {i \in ends : i < stop /\ value[i] = "."}
  IN  IF dots = {} THEN stop - at - 1
      ELSE stop - 1 - (CHOOSE i \in dots : \A k \in dots : k <= i)

validateEmail(value) ==
  IF value = <<>> THEN "Email is required"
  ELSE IF ~EmailPattern(value) THEN "Invalid email address"
  ELSE IF ExtensionLength(value) < 2
    THEN "Email domain extension must be at least 2 characters"
  ELSE IF Len(value) > 254 THEN "Email address is too long"
  ELSE ""

\* The issues EntrySchema raises for each field: zod runs every check of a
\* string and reports each one that fails.
telegramUsernameIssues(value) ==
  {m \in {"Telegram username is required"} : Len(value) < 1}
    \cup {m \in {"Telegram username is too long"} : Len(value) > 32}
    \cup {m \in {"Telegram username can only contain letters, numbers, and underscores"} :
            value = <<>> \/ \E i \in 1..Len(value) : value[i] \notin Word}

platformUsernameIssues(value) ==
  {m \in {"Platform username is required"} : Len(value) < 1}
    \cup {m \in {"Platform username is too long"} : Len(value) > 50}

walletAddressIssues(value) ==
  {m \in {"Wallet address is required"} : value = ""}
    \cup {m \in {"Invalid Ethereum wallet address"} : ~isAddress(value)}

\* discordUsername is optional, or the literal "": an absent key and the empty
\* string pass without the string checks.
discordUsernameIssues(given, value) ==
  IF ~given \/ value = <<>> THEN {}
  ELSE {m \in {"Invalid input"} :
          Len(value) > 32 \/ \E i \in 1..Len(value) : value[i] \notin Word}

\* z.string().email(): an address with a local part, one "@" and a dotted
\* domain whose last label has two letters or more.
emailIssues(value) ==
  {m \in {"Invalid email address"} :
     \/ ~EmailPattern(value)
     \/ ExtensionLength(value) < 2
     \/ \E i \in 1..Len(value) : value[i] \notin Word \cup {"@", ".", "-"}}
    \cup {m \in {"Email address is too long"} : Len(value) > 254}

\* EntrySchema.parse succeeds: the field values are tokens, and the sets name
\* the tokens each field validator accepts; a platform username has 1 to 50
\* characters.
EntrySchemaOk(data) ==
  /\ data.topicId # 0
  /\ data.telegramUsername \in Telegrams
  /\ Len(Spelling(data.platformUsername)) \in 1..50
  /\ data.walletAddress \in Wallets
  /\ data.discordUsername = ""
  /\ data.email \in Emails

CreateTopicSchemaOk(body) == body.name # "" /\ body.description # ""

UpdateTopicSchemaOk(body) == body.id # 0

\* The documents S as the store returns them for a query without orderBy:
\* ascending by document id.
RECURSIVE AscendingIds(_)
AscendingIds(S) ==
  IF S = {} THEN <<>>
  ELSE LET m == CHOOSE x \in S : \A y \in S : x <= y
       IN  <<m>> \o AscendingIds(S \ {m})

\* The ids S of `coll` under orderBy("createdAt", "desc"); documents with the
\* same createdAt follow in the direction of the last orderBy, descending id.
RECURSIVE OrderByCreatedAtDesc(_, _)
OrderByCreatedAtDesc(coll, S) ==
  IF S = {} THEN <<>>
  ELSE LET m == CHOOSE x \in S : \A y \in S :
                  \/ coll[x].createdAt > coll[y].createdAt
                  \/ coll[x].createdAt = coll[y].createdAt /\ x >= y
       IN  <<m>> \o OrderByCreatedAtDesc(coll, S \ {m})

\* doc => ({ id: doc.id, ...doc.data() })
WithId(coll, ids) == [i \in 1..Len(ids) |-> [id |-> ids[i], doc |-> coll[ids[i]]]]

Remove(coll, ids) == [i \in (DOMAIN coll) \ ids |-> coll[i]]

\* ------------------------------------------------------------------- state
VARIABLES
  topics,       \* collection "topics": id -> [name, description, isActive, createdAt]
  entries,      \* collection "entries": id -> the stored entry
  nextTopicId,  \* the next id the store assigns in "topics"
  nextEntryId,  \* the next id the store assigns in "entries"
  now,          \* Date.now()
  pc,           \* per request process: the await it is suspended at
  req,          \* per request process: the request it serves
  local,        \* per request process: the handler's locals kept across awaits
  resp,         \* per request process: the response it sent
  entryForm,    \* EntryForm: its state hooks and the fetch it awaits
  validation,   \* the last run of the field validators: inputs and verdicts
  exported,     \* the last CSV export: the component, its entries, the file
  entriesList,  \* EntriesList: props, state hooks, debounce timer, fetches in flight
  authContext,  \* AuthProvider: isAuthenticated, the pending timers, the timer ref
  selfDestruct  \* SelfDestruct: props, isVisible, the animation frame requested

client == <<entryForm, validation, exported, entriesList, authContext, selfDestruct>>
server == <<topics, entries, nextTopicId, nextEntryId, now, pc, req, local, resp>>
vars == <<server, client>>
store == <<topics, entries, nextTopicId, nextEntryId>>

Empty == [i \in {} |-> 0]

Init ==
  /\ topics = Empty
  /\ entries = Empty
  /\ nextTopicId = 1
  /\ nextEntryId = 1
  /\ now = 0
  /\ pc = [p \in Procs |-> "idle"]
  /\ req = [p \in Procs |-> NoReq]
  /\ local = [p \in Procs |-> NoLocal]
  /\ resp = [p \in Procs |-> NoResp]
  /\ entryForm = NoForm
  /\ validation = NoValidation
  /\ exported = NoExport
  /\ entriesList = MountedList
  /\ authContext = SignedOut
  /\ selfDestruct = MountedSelfDestruct


\* The request arrives at process p and its handler runs to its first await.
Suspend(p, r, at, loc) ==
  /\ pc[p] = "idle"
  /\ req' = [req EXCEPT ![p] = r]
  /\ pc' = [pc EXCEPT ![p] = at]
  /\ local' = [local EXCEPT ![p] = loc]
  /\ resp' = [resp EXCEPT ![p] = NoResp]

\* res.status(status).json(...): the handler of p ends.
Respond(p, r) ==
  /\ pc' = [pc EXCEPT ![p] = "done"]
  /\ resp' = [resp EXCEPT ![p] = r]
  /\ local' = local

\* The request arrives at process p and is answered before any await.
Reject(p, r, answer) ==
  /\ pc[p] = "idle"
  /\ req' = [req EXCEPT ![p] = r]
  /\ Respond(p, answer)

Error(status, msg) == [status |-> status, error |-> msg]

Unauthorized == Error(401, "Unauthorized")

\* --------------------------------------------------- POST /entries (public)
\* Mutant: the duplicate query without its topic filter.
duplicates_AllTopics(es, data) == DOMAIN es

\* The stored entries of the candidate's topic.
duplicates(es, data) == {i \in DOMAIN es : es[i].topicId = data.topicId}

duplicateWallet(es, data) ==
  \E i \in duplicates(es, data) : es[i].walletAddress = data.walletAddress

\* Mutant: the email check compares against the wrong field.
duplicateEmail_WrongField(es, data) ==
  \E i \in {j \in DOMAIN es : es[j].topicId = data.topicId} : es[i].email = data.walletAddress

duplicateEmail(es, data) ==
  \E i \in duplicates(es, data) : es[i].email = data.email

duplicateUser(es, data) ==
  \E i \in duplicates(es, data) :
     /\ es[i].telegramUsername = data.telegramUsername
     /\ es[i].platformUsername = data.platformUsername

WalletUsed == "This wallet address has already been used for this topic"
EmailUsed == "This email address has already been used for this topic"
AlreadySubmitted == "You have already submitted an entry for this topic"

\* Mutant: the email check runs before the wallet check.
duplicateError_EmailFirst(es, data) ==
  IF \E i \in DOMAIN es : es[i].topicId = data.topicId /\ es[i].email = data.email
    THEN "This email address has already been used for this topic"
  ELSE IF \E i \in DOMAIN es : es[i].topicId = data.topicId /\ es[i].walletAddress = data.walletAddress
    THEN "This wallet address has already been used for this topic"
  ELSE IF \E i \in DOMAIN es :
            /\ es[i].topicId = data.topicId
            /\ es[i].telegramUsername = data.telegramUsername
            /\ es[i].platformUsername = data.platformUsername
    THEN "You have already submitted an entry for this topic"
  ELSE ""

\* The error the duplicate check answers with, "" when it finds none.
duplicateError(es, data) ==
  IF duplicateWallet(es, data) THEN WalletUsed
  ELSE IF duplicateEmail(es, data) THEN EmailUsed
  ELSE IF duplicateUser(es, data) THEN AlreadySubmitted
  ELSE ""

\* handlePostEntry up to its first await, on the request body `data`.
PostEntryParse(p, data) ==
  LET r == [ep |-> "POST /entries", data |-> data]
  IN  IF EntrySchemaOk(data)
      THEN Suspend(p, r, "pe_query", NoLocal)
      ELSE Reject(p, r, Error(400, "Validation failed"))

PostEntryBegin(p, Candidates) ==
  /\ pc[p] = "idle"
  /\ \E data \in Candidates : PostEntryParse(p, data)
  /\ UNCHANGED <<store, now, client>>

\* The query for the topic's entries returns; the duplicate checks run on it.
PostEntryCheck(p) ==
  /\ pc[p] = "pe_query"
  /\ LET data == req[p].data
         err == duplicateError(entries, data)
     IN  IF err # ""
         THEN Respond(p, Error(400, err))
         ELSE /\ pc' = [pc EXCEPT ![p] = "pe_add"]
              /\ local' = [local EXCEPT ![p] =
                   [topicId |-> data.topicId, topicName |-> data.topicName,
                    telegramUsername |-> data.telegramUsername,
                    platformUsername |-> data.platformUsername,
                    walletAddress |-> data.walletAddress,
                    discordUsername |-> data.discordUsername,
                    email |-> data.email, createdAt |-> now]]
              /\ UNCHANGED resp
  /\ UNCHANGED <<store, now, req, client>>

\* Mutant: the write repeats the wallet check and refuses a duplicate.
PostEntryAdd_Rechecked(p) ==
  /\ pc[p] = "pe_add"
  /\ nextEntryId <= MaxEntries
  /\ IF \E i \in DOMAIN entries :
          /\ entries[i].topicId = local[p].topicId
          /\ entries[i].walletAddress = local[p].walletAddress
     THEN /\ Respond(p, Error(400, "This wallet address has already been used for this topic"))
          /\ UNCHANGED <<entries, nextEntryId>>
     ELSE /\ entries' = (nextEntryId :> local[p]) @@ entries
          /\ nextEntryId' = nextEntryId + 1
          /\ Respond(p, [status |-> 201, id |-> nextEntryId, entry |-> local[p]])
  /\ UNCHANGED <<topics, nextTopicId, now, req, client>>

\* collection("entries").add(newEntry) returns, while the collection has had
\* fewer than `cap` entries.
PostEntryAddUpTo(p, cap) ==
  /\ pc[p] = "pe_add"
  /\ nextEntryId <= cap
  /\ entries' = (nextEntryId :> local[p]) @@ entries
  /\ nextEntryId' = nextEntryId + 1
  /\ Respond(p, [status |-> 201, id |-> nextEntryId, entry |-> local[p]])
  /\ UNCHANGED <<topics, nextTopicId, now, req, client>>

PostEntryAdd(p) == PostEntryAddUpTo(p, MaxEntries)

\* ------------------------------------------------- DELETE /entries (admin)
\* Mutant: the handler skips the token check.
DeleteEntryBegin_NoGate(p) ==
  /\ pc[p] = "idle"
  /\ \E auth \in BOOLEAN, id \in EntryIdArgs :
       LET r == [ep |-> "DELETE /entries", auth |-> auth, id |-> id]
       IN  IF id = 0 THEN Reject(p, r, Error(400, "Entry ID is required"))
           ELSE Suspend(p, r, "de_get", NoLocal)
  /\ UNCHANGED <<store, now, client>>

DeleteEntryBegin(p) ==
  /\ pc[p] = "idle"
  /\ \/ Reject(p, [ep |-> "DELETE /entries", auth |-> FALSE], Unauthorized)
     \/ \E id \in EntryIdArgs :
          LET r == [ep |-> "DELETE /entries", auth |-> TRUE, id |-> id]
          IN  IF id = 0 THEN Reject(p, r, Error(400, "Entry ID is required"))
              ELSE Suspend(p, r, "de_get", NoLocal)
  /\ UNCHANGED <<store, now, client>>

\* Mutant: the delete is issued without looking the entry up.
DeleteEntryGet_NoLookup(p) ==
  /\ pc[p] = "de_get"
  /\ pc' = [pc EXCEPT ![p] = "de_delete"]
  /\ UNCHANGED <<store, now, req, local, resp, client>>

\* entryRef.get() returns.
DeleteEntryGet(p) ==
  /\ pc[p] = "de_get"
  /\ IF req[p].id \notin DOMAIN entries
     THEN Respond(p, Error(404, "Entry not found"))
     ELSE pc' = [pc EXCEPT ![p] = "de_delete"] /\ UNCHANGED <<local, resp>>
  /\ UNCHANGED <<store, now, req, client>>

\* entryRef.delete() returns; deleting a document that is gone succeeds.
DeleteEntryDelete(p) ==
  /\ pc[p] = "de_delete"
  /\ entries' = Remove(entries, {req[p].id})
  /\ Respond(p, [status |-> 200, message |-> "Entry deleted successfully"])
  /\ UNCHANGED <<topics, nextTopicId, nextEntryId, now, req, client>>

\* ---------------------------------------------------- GET /entries (admin)
\* The entries a store query of the request selects: where("topicId", "==", id)
\* when the request names a topic id.
EntriesQuery(es, topicId) ==
  IF topicId # 0 THEN {i \in DOMAIN es : es[i].topicId = topicId} ELSE DOMAIN es

Listing(items, total, pg) ==
  [status |-> 200, items |-> items,
   pagination |-> [total |-> total, page |-> pg.page, limit |-> pg.limit,
                   totalPages |-> CeilDiv(total, pg.limit)]]

\* Mutant: a topic name selects the in-memory path even when a topic id is given.
GetEntriesBegin_NameWins(p, Raws, Ids, Terms) ==
  /\ pc[p] = "idle"
  /\ \/ Reject(p, [ep |-> "GET /entries", auth |-> FALSE], Unauthorized)
     \/ \E rawPage \in Raws, rawLimit \in Raws, topicId \in Ids, topicName \in Terms :
          LET r == [ep |-> "GET /entries", auth |-> TRUE, page |-> rawPage, limit |-> rawLimit,
                    topicId |-> topicId, topicName |-> topicName]
              pg == getPaginationParams(rawPage, rawLimit)
          IN  IF topicName # <<>> THEN Suspend(p, r, "ge_scan", pg)
              ELSE Suspend(p, r, "ge_count", pg)
  /\ UNCHANGED <<store, now, client>>

GetEntriesBegin(p, Raws, Ids, Terms) ==
  /\ pc[p] = "idle"
  /\ \/ Reject(p, [ep |-> "GET /entries", auth |-> FALSE], Unauthorized)
     \/ \E rawPage \in Raws, rawLimit \in Raws, topicId \in Ids, topicName \in Terms :
          LET r == [ep |-> "GET /entries", auth |-> TRUE, page |-> rawPage, limit |-> rawLimit,
                    topicId |-> topicId, topicName |-> topicName]
              pg == getPaginationParams(rawPage, rawLimit)
          IN  IF topicName # <<>> /\ topicId = 0 THEN Suspend(p, r, "ge_scan", pg)
              ELSE Suspend(p, r, "ge_count", pg)
  /\ UNCHANGED <<store, now, client>>

\* Mutant: the page is cut from the fetched documents before they are filtered.
GetEntriesScan_SliceFirst(p) ==
  /\ pc[p] = "ge_scan"
  /\ LET pg == local[p]
         docs == AscendingIds(EntriesQuery(entries, req[p].topicId))
         matches(i) == includes(toLowerCase(entries[i].topicName), toLowerCase(req[p].topicName))
         page == SelectSeq(slice(docs, pg.offset, pg.offset + pg.limit), matches)
     IN  Respond(p, Listing(WithId(entries, page), Len(SelectSeq(docs, matches)), pg))
  /\ UNCHANGED <<store, now, req, client>>

\* In-memory path: the whole collection is fetched and filtered by topic name.
GetEntriesScan(p) ==
  /\ pc[p] = "ge_scan"
  /\ LET pg == local[p]
         docs == AscendingIds(EntriesQuery(entries, req[p].topicId))
         matches(i) == includes(toLowerCase(entries[i].topicName), toLowerCase(req[p].topicName))
         filteredDocs == SelectSeq(docs, matches)
         page == slice(filteredDocs, pg.offset, pg.offset + pg.limit)
     IN  Respond(p, Listing(WithId(entries, page), Len(filteredDocs), pg))
  /\ UNCHANGED <<store, now, req, client>>

\* Mutant: the count is taken of the whole collection, not of the topic's
\* entries.
GetEntriesCount_Unfiltered(p) ==
  /\ pc[p] = "ge_count"
  /\ pc' = [pc EXCEPT ![p] = "ge_page"]
  /\ local' = [local EXCEPT ![p] =
       [page |-> local[p].page, limit |-> local[p].limit, offset |-> local[p].offset,
        total |-> Cardinality(DOMAIN entries)]]
  /\ UNCHANGED <<store, now, req, resp, client>>

\* Store path, first await: entriesQuery.count().get() returns.
GetEntriesCount(p) ==
  /\ pc[p] = "ge_count"
  /\ pc' = [pc EXCEPT ![p] = "ge_page"]
  /\ local' = [local EXCEPT ![p] =
       [page |-> local[p].page, limit |-> local[p].limit, offset |-> local[p].offset,
        total |-> Cardinality(EntriesQuery(entries, req[p].topicId))]]
  /\ UNCHANGED <<store, now, req, resp, client>>

\* Store path, second await: the ordered limit/offset query returns.
GetEntriesPage(p) ==
  /\ pc[p] = "ge_page"
  /\ LET pg == local[p]
         ordered == OrderByCreatedAtDesc(entries, EntriesQuery(entries, req[p].topicId))
         page == slice(ordered, pg.offset, pg.offset + pg.limit)
     IN  Respond(p, Listing(WithId(entries, page), pg.total, pg))
  /\ UNCHANGED <<store, now, req, client>>

\* ----------------------------------------------------- GET /topics (public)
TopicsQuery(ts, type) ==
  IF type = "active" THEN {i \in DOMAIN ts : ts[i].isActive} ELSE DOMAIN ts

GetTopicsBegin(p, Raws) ==
  /\ pc[p] = "idle"
  /\ \E rawPage \in Raws, rawLimit \in Raws, type \in {"all", "active"} :
       LET r == [ep |-> "GET /topics", page |-> rawPage, limit |-> rawLimit, type |-> type]
       IN  Suspend(p, r, "gt_count", getPaginationParams(rawPage, rawLimit))
  /\ UNCHANGED <<store, now, client>>

GetTopicsCount(p) ==
  /\ pc[p] = "gt_count"
  /\ pc' = [pc EXCEPT ![p] = "gt_page"]
  /\ local' = [local EXCEPT ![p] =
       [page |-> local[p].page, limit |-> local[p].limit, offset |-> local[p].offset,
        total |-> Cardinality(TopicsQuery(topics, req[p].type))]]
  /\ UNCHANGED <<store, now, req, resp, client>>

GetTopicsPage(p) ==
  /\ pc[p] = "gt_page"
  /\ LET pg == local[p]
         ordered == OrderByCreatedAtDesc(topics, TopicsQuery(topics, req[p].type))
         page == slice(ordered, pg.offset, pg.offset + pg.limit)
     IN  Respond(p, Listing(WithId(topics, page), pg.total, pg))
  /\ UNCHANGED <<store, now, req, client>>

\* ----------------------------------------------------- POST /topics (admin)
\* CreateTopicSchema.parse: the keys of the schema are kept, any other key of
\* the body is dropped.
CreateTopicSchemaParse(body) == [name |-> body.name, description |-> body.description]

\* Mutant: the body is spread after the defaults and its keys are all kept, so
\* an isActive of the body replaces the default.
newTopic_BodyLast(body, t) ==
  [name |-> body.name, description |-> body.description,
   isActive |-> (body.isActive # "false"), createdAt |-> t]

\* { ...validatedData, isActive: true, createdAt: Date.now() }
newTopic(body, t) ==
  LET validatedData == CreateTopicSchemaParse(body)
  IN  [name |-> validatedData.name, description |-> validatedData.description,
       isActive |-> TRUE, createdAt |-> t]

CreateTopicBegin(p) ==
  /\ pc[p] = "idle"
  /\ \/ Reject(p, [ep |-> "POST /topics", auth |-> FALSE], Unauthorized)
     \/ \E body \in TopicBodies :
          LET r == [ep |-> "POST /topics", auth |-> TRUE, body |-> body]
          IN  IF ~CreateTopicSchemaOk(body) THEN Reject(p, r, Error(400, "Validation failed"))
              ELSE Suspend(p, r, "ct_add", newTopic(body, now))
  /\ UNCHANGED <<store, now, client>>

CreateTopicAdd(p) ==
  /\ pc[p] = "ct_add"
  /\ nextTopicId <= MaxTopics
  /\ topics' = (nextTopicId :> local[p]) @@ topics
  /\ nextTopicId' = nextTopicId + 1
  /\ Respond(p, [status |-> 201, id |-> nextTopicId, topic |-> local[p]])
  /\ UNCHANGED <<entries, nextEntryId, now, req, client>>

\* ---------------------------------------------------- PATCH /topics (admin)
UpdateTopicBegin(p) ==
  /\ pc[p] = "idle"
  /\ \/ Reject(p, [ep |-> "PATCH /topics", auth |-> FALSE], Unauthorized)
     \/ \E id \in TopicIdArgs, isActive \in BOOLEAN :
          LET body == [id |-> id, isActive |-> isActive]
              r == [ep |-> "PATCH /topics", auth |-> TRUE, body |-> body]
          IN  IF ~UpdateTopicSchemaOk(body) THEN Reject(p, r, Error(400, "Validation failed"))
              ELSE Suspend(p, r, "ut_update", NoLocal)
  /\ UNCHANGED <<store, now, client>>

\* Mutant: the update also stamps the document with the current time.
UpdateTopicUpdate_Touches(p) ==
  /\ pc[p] = "ut_update"
  /\ LET body == req[p].body
     IN  IF body.id \in DOMAIN topics
         THEN /\ topics' = [topics EXCEPT ![body.id].isActive = body.isActive,
                                          ![body.id].createdAt = now]
              /\ Respond(p, [status |-> 200, message |-> "Topic status updated"])
         ELSE /\ topics' = topics
              /\ Respond(p, Error(500, "Failed to update topic"))
  /\ UNCHANGED <<entries, nextTopicId, nextEntryId, now, req, client>>

\* doc(id).update({isActive}) returns; update rejects when the document is
\* missing, and the handler's catch answers 500.
UpdateTopicUpdate(p) ==
  /\ pc[p] = "ut_update"
  /\ LET body == req[p].body
     IN  IF body.id \in DOMAIN topics
         THEN /\ topics' = [topics EXCEPT ![body.id].isActive = body.isActive]
              /\ Respond(p, [status |-> 200, message |-> "Topic status updated"])
         ELSE /\ topics' = topics
              /\ Respond(p, Error(500, "Failed to update topic"))
  /\ UNCHANGED <<entries, nextTopicId, nextEntryId, now, req, client>>

\* --------------------------------------------------- DELETE /topics (admin)
DeleteTopicBegin(p) ==
  /\ pc[p] = "idle"
  /\ \/ Reject(p, [ep |-> "DELETE /topics", auth |-> FALSE], Unauthorized)
     \/ \E id \in TopicIdArgs :
          LET r == [ep |-> "DELETE /topics", auth |-> TRUE, id |-> id]
          IN  IF id = 0 THEN Reject(p, r, Error(400, "Topic ID is required"))
              ELSE Suspend(p, r, "dt_query", NoLocal)
  /\ UNCHANGED <<store, now, client>>

\* The query for the topic's entries returns: entriesSnapshot.
DeleteTopicQuery(p) ==
  /\ pc[p] = "dt_query"
  /\ pc' = [pc EXCEPT ![p] = "dt_commit"]
  /\ local' = [local EXCEPT ![p] =
       [at |-> "commit",
        entriesSnapshot |-> {i \in DOMAIN entries : entries[i].topicId = req[p].id}]]
  /\ UNCHANGED <<store, now, req, resp, client>>

\* Mutant: the topic document alone is deleted (no cascade).
BatchCommit_TopicOnly(ts, es, snapshot, id) ==
  [topics |-> Remove(ts, {id}), entries |-> es]

\* What a committed batch leaves: the snapshot's entries and the topic deleted
\* (a delete of a document that is already gone succeeds).
BatchCommit(ts, es, snapshot, id) ==
  [topics |-> Remove(ts, {id}), entries |-> Remove(es, snapshot)]

\* Mutant: the deletes are issued one by one, the topic first, and the run
\* may stop after the topic.
DeleteTopicCommit_Unbatched(p) ==
  /\ pc[p] = "dt_commit"
  /\ topics' = Remove(topics, {req[p].id})
  /\ \/ /\ entries' = Remove(entries, local[p].entriesSnapshot)
        /\ Respond(p, [status |-> 200, message |-> "Topic and related entries deleted successfully"])
     \/ /\ entries' = entries
        /\ Respond(p, Error(500, "Failed to delete topic"))
  /\ UNCHANGED <<nextTopicId, nextEntryId, now, req, client>>

\* Mutant: a topic that does not exist is an error.
DeleteTopicCommit_RequireExists(p) ==
  /\ pc[p] = "dt_commit"
  /\ IF req[p].id \in DOMAIN topics
     THEN /\ topics' = Remove(topics, {req[p].id})
          /\ entries' = Remove(entries, local[p].entriesSnapshot)
          /\ Respond(p, [status |-> 200, message |-> "Topic and related entries deleted successfully"])
     ELSE /\ UNCHANGED <<topics, entries>>
          /\ Respond(p, Error(404, "Topic not found"))
  /\ UNCHANGED <<nextTopicId, nextEntryId, now, req, client>>

\* batch.commit() returns.
DeleteTopicCommit(p) ==
  /\ pc[p] = "dt_commit"
  /\ LET after == BatchCommit(topics, entries, local[p].entriesSnapshot, req[p].id)
     IN  /\ topics' = after.topics
         /\ entries' = after.entries
  /\ Respond(p, [status |-> 200, message |-> "Topic and related entries deleted successfully"])
  /\ UNCHANGED <<nextTopicId, nextEntryId, now, req, client>>

\* ------------------------------------------------------------- environment
AwaitPcs ==
  {"pe_query", "pe_add", "de_get", "de_delete", "ge_scan", "ge_count", "ge_page",
   "gt_count", "gt_page", "ct_add", "ut_update", "dt_query", "dt_commit"}

\* handleAuthError, on the message of the error that was thrown.
handleAuthError(msg) ==
  IF msg = "deadline expired" THEN Error(401, "Token has expired")
  ELSE IF msg = "Invalid token state" THEN Error(401, "Invalid token")
  ELSE Error(500, "Authentication error")

\* The catch block of each handler.
CatchResponse(ep, msg) ==
  CASE ep = "GET /entries" -> Error(500, "Failed to fetch entries")
    [] ep = "POST /entries" -> Error(500, "Failed to create entry")
    [] ep = "DELETE /entries" -> handleAuthError(msg)
    [] ep = "GET /topics" -> Error(500, "Failed to fetch topics")
    [] ep = "POST /topics" -> Error(500, "Failed to create topic")
    [] ep = "PATCH /topics" -> Error(500, "Failed to update topic")
    [] ep = "DELETE /topics" -> Error(500, "Failed to delete topic")

\* The store operation p awaits is rejected: nothing is written, the handler's
\* catch block answers.
StoreFail(p) ==
  /\ pc[p] \in AwaitPcs
  /\ \E msg \in StoreErrors : Respond(p, CatchResponse(req[p].ep, msg))
  /\ UNCHANGED <<store, now, req, client>>

\* Time passes.
Tick ==
  /\ now < MaxClock
  /\ now' = now + 1
  /\ UNCHANGED <<store, pc, req, local, resp, client>>

\* The response has been delivered; the process can serve the next request.
Return(p) ==
  /\ pc[p] = "done"
  /\ pc' = [pc EXCEPT ![p] = "idle"]
  /\ req' = [req EXCEPT ![p] = NoReq]
  /\ resp' = [resp EXCEPT ![p] = NoResp]
  /\ local' = [local EXCEPT ![p] = NoLocal]
  /\ UNCHANGED <<store, now, client>>

\* ---------------------------------------------------------------- EntryForm
\* handleSubmit up to its first await: validateForm, then the fetch of the
\* Platform-Username Checker.
FormSubmit(Inputs) ==
  /\ entryForm.at = "editing"
  /\ ~entryForm.isSuccess
  /\ \E formData \in Inputs :
       LET newErrors == validateForm(Spelled(formData))
       IN  entryForm' =
             [entryForm EXCEPT
                !.formData = formData, !.errors = newErrors, !.submitError = "",
                !.at = IF DOMAIN newErrors = {} THEN "validating" ELSE "editing"]
  /\ UNCHANGED <<server, validation, exported, entriesList, authContext, selfDestruct>>

\* handleSubmit after the checker's response has been read: a response that
\* is not ok or does not say isValid ends the submission, any other one is
\* followed by the fetch of POST /api/entries.
AfterValidation(form, reply) ==
  IF reply.status \notin 200..299 \/ ~reply.isValid
  THEN [form EXCEPT
          !.at = "editing",
          !.submitError = "Invalid platform username. Please check the format and try again."]
  ELSE [form EXCEPT !.at = "posting", !.proc = 0]

\* The catch block of handleSubmit.
AfterThrow(form) ==
  [form EXCEPT !.at = "editing", !.submitError = "An unexpected error occurred"]

\* The checker answers the form's request.
ValidationReturns ==
  /\ entryForm.at = "validating"
  /\ entryForm' =
       AfterValidation(entryForm,
                       ValidatePlatformUsernameApi(entryForm.formData.platformUsername))
  /\ UNCHANGED <<server, validation, exported, entriesList, authContext, selfDestruct>>

\* The checker cannot be reached, or fails.
ValidationFails ==
  /\ entryForm.at = "validating"
  /\ \E failure \in {"network error", "500"} :
       entryForm' =
         IF failure = "network error"
         THEN AfterThrow(entryForm)
         ELSE AfterValidation(entryForm, [status |-> 500, error |-> "Internal server error"])
  /\ UNCHANGED <<server, validation, exported, entriesList, authContext, selfDestruct>>

\* The form's POST /api/entries arrives at process p.
FormSend(p) ==
  /\ entryForm.at = "posting"
  /\ entryForm.proc = 0
  /\ pc[p] = "idle"
  /\ PostEntryParse(p, [topicId |-> 1, topicName |-> <<"A", "b">>] @@ entryForm.formData)
  /\ entryForm' = [entryForm EXCEPT !.proc = p]
  /\ UNCHANGED <<store, now, validation, exported, entriesList, authContext, selfDestruct>>

\* The response to the form's POST /api/entries arrives; handleSubmit ends.
FormReceive(p) ==
  /\ entryForm.at = "posting"
  /\ entryForm.proc = p
  /\ pc[p] = "done"
  /\ entryForm' =
       IF resp[p].status \notin 200..299
       THEN [entryForm EXCEPT !.at = "editing", !.proc = 0, !.submitError = resp[p].error]
       ELSE [entryForm EXCEPT
               !.at = "editing", !.proc = 0, !.isSuccess = TRUE, !.formData = NoFormData]
  /\ pc' = [pc EXCEPT ![p] = "idle"]
  /\ req' = [req EXCEPT ![p] = NoReq]
  /\ resp' = [resp EXCEPT ![p] = NoResp]
  /\ local' = [local EXCEPT ![p] = NoLocal]
  /\ UNCHANGED <<store, now, validation, exported, entriesList, authContext, selfDestruct>>

\* The response to a request that did not come from the form is delivered.
ReturnDirect(p) ==
  /\ entryForm.proc # p
  /\ Return(p)

EntryForm(p) ==
  \/ FormSubmit(FormInputs)
  \/ ValidationReturns
  \/ ValidationFails
  \/ FormSend(p)
  \/ FormReceive(p)

\* --------------------------------------------------------- field validators
\* The field validators of the form and the schema of the server run on one
\* set of field values; discordUsername may be absent from the request body.
Validate ==
  \E tg \in TelegramValues, pf \in PlatformValues, wa \in WalletValues,
     dc \in DiscordValues, em \in EmailValues, given \in BOOLEAN :
    /\ ~given => dc = <<>>
    /\ LET values == [telegramUsername |-> tg, platformUsername |-> pf,
                      walletAddress |-> wa, discordUsername |-> dc, email |-> em]
       IN  validation' =
             [ran |-> TRUE, values |-> values, discordGiven |-> given,
              reasons |->
                [telegramUsername |-> validateTelegramUsername(tg),
                 platformUsername |-> validatePlatformUsernameField(pf),
                 walletAddress |-> validateWalletAddress(wa),
                 discordUsername |-> validateDiscordUsername(dc),
                 email |-> validateEmail(em)],
              errors |-> validateForm(values),
              issues |->
                [telegramUsername |-> telegramUsernameIssues(tg),
                 platformUsername |-> platformUsernameIssues(pf),
                 walletAddress |-> walletAddressIssues(wa),
                 discordUsername |-> discordUsernameIssues(given, dc),
                 email |-> emailIssues(em)]]
    /\ UNCHANGED <<server, entryForm, exported, entriesList, authContext, selfDestruct>>

\* ------------------------------------------------------------- CSV export
\* format(createdAt, "MMM d, yyyy h:mm a") of date-fns: the time to the
\* minute.
format(createdAt) == <<"MMM d, yyyy h:mm a", createdAt \div 60000>>

\* The `fields` of handleExportCSV in each component: label and value.
ExportFields(component) ==
  IF component = "components/EntriesList"
  THEN << <<"Topic Name", "topicName">>,
          <<"Telegram Username", "telegramUsername">>,
          <<"Platform Username", "platformUsername">>,
          <<"Wallet Address", "walletAddress">>,
          <<"Discord Username", "discordUsername">>,
          <<"Email", "email">>,
          <<"Submission Date", "format">> >>
  ELSE << <<"Telegram Username", "telegramUsername">>,
          <<"Platform Username", "platformUsername">>,
          <<"Wallet Address", "walletAddress">>,
          <<"Discord Username", "discordUsername">>,
          <<"Email", "email">>,
          <<"Submission Date", "format">> >>

\* A cell of json2csv: a quoted string, or nothing for a missing value.
Cell(row, value) ==
  IF value = "format" THEN <<"\"", format(row.createdAt), "\"">>
  ELSE IF value \in DOMAIN row THEN <<"\"", row[value], "\"">>
  ELSE <<>>

\* new Parser({ fields }).parse(data): the header, then one line per row.
Parse(fields, data) ==
  << [c \in 1..Len(fields) |-> <<"\"", fields[c][1], "\"">>] >>
    \o [r \in 1..Len(data) |-> [c \in 1..Len(fields) |-> Cell(data[r], fields[c][2])]]

\* handleExportCSV of a list component that holds `list` as its entries: an
\* empty list is not exported.
ExportCSV(component, list) ==
  /\ exported' =
       IF list = <<>> THEN exported
       ELSE [component |-> component, entries |-> list,
             csv |-> Parse(ExportFields(component), list)]
  /\ UNCHANGED <<server, entryForm, validation, entriesList, authContext, selfDestruct>>

\* -------------------------------------------------------------- EntriesList
\* fetchEntries up to its fetch, called by the effect when `changed`: the
\* request carries the debounced topic name and the page of this render.
Fetching(list, changed) ==
  IF changed
  THEN [list EXCEPT
          !.issued = @ + 1,
          !.inflight = @ \cup {[id |-> list.issued + 1,
                                topicName |-> list.debouncedTopicName,
                                page |-> list.page]}]
  ELSE list

\* The parent passes a new topicName: the pending debounce timer is cleared
\* and a new one is set.
TypeTopicName ==
  /\ \E term \in {"", "a", "ab"} \ {entriesList.topicName} :
       entriesList' = [entriesList EXCEPT !.topicName = term, !.timer = TRUE]
  /\ UNCHANGED <<server, entryForm, validation, exported, authContext, selfDestruct>>

\* The debounce timer fires: debouncedTopicName follows topicName, and the
\* fetch effect runs if it changed.
DebounceFires ==
  /\ entriesList.timer
  /\ entriesList.debouncedTopicName # entriesList.topicName
       => entriesList.issued < MaxFetches
  /\ entriesList' =
       Fetching([entriesList EXCEPT
                   !.timer = FALSE, !.debouncedTopicName = entriesList.topicName],
                entriesList.debouncedTopicName # entriesList.topicName)
  /\ UNCHANGED <<server, entryForm, validation, exported, authContext, selfDestruct>>

\* handlePageChange: the fetch effect runs for the new page.
PageChange ==
  /\ entriesList.issued < MaxFetches
  /\ \E newPage \in (1..MaxPage) \ {entriesList.page} :
       entriesList' = Fetching([entriesList EXCEPT !.page = newPage], TRUE)
  /\ UNCHANGED <<server, entryForm, validation, exported, authContext, selfDestruct>>

\* A fetch returns: setEntries and setPagination take the response, whichever
\* request it answers; a page other than the current one makes the fetch
\* effect run again.
FetchReturns ==
  /\ \E r \in entriesList.inflight :
       /\ r.page # entriesList.page => entriesList.issued < MaxFetches
       /\ entriesList' =
            Fetching([entriesList EXCEPT
                        !.inflight = @ \ {r}, !.shown = r, !.page = r.page],
                     r.page # entriesList.page)
  /\ UNCHANGED <<server, entryForm, validation, exported, authContext, selfDestruct>>

\* -------------------------------------------------------------- AuthContext
\* clearTimeout(inactivityTimerRef.current).
ClearTimer(ctx) ==
  [ctx EXCEPT !.timers = [t \in DOMAIN ctx.timers \ {ctx.ref} |-> ctx.timers[t]]]

\* resetInactivityTimer: the timer of the ref is cleared and, for an
\* authenticated user, a new one is set and kept in the ref.
resetInactivityTimer(ctx) ==
  LET cleared == ClearTimer(ctx)
  IN  IF ctx.isAuthenticated
      THEN LET id == CHOOSE t \in 1..MaxTimers :
                       /\ t \notin DOMAIN cleared.timers
                       /\ \A u \in 1..(t - 1) : u \in DOMAIN cleared.timers
           IN  [cleared EXCEPT !.timers = (id :> INACTIVITY_TIMEOUT) @@ cleared.timers,
                               !.ref = id]
      ELSE cleared

\* onAuthStateChanged reports a user: isAuthenticated becomes true and the
\* effect adds the activity listeners and sets the first timer.
SignIn ==
  /\ ~authContext.isAuthenticated
  /\ ~authContext.signingOut
  /\ authContext' = resetInactivityTimer([authContext EXCEPT !.isAuthenticated = TRUE])
  /\ UNCHANGED <<server, entryForm, validation, exported, entriesList, selfDestruct>>

\* mousemove, keydown, click, scroll, touchstart or userActivity: the
\* listeners exist while isAuthenticated, and call resetInactivityTimer.
UserActivity ==
  /\ authContext.isAuthenticated => Cardinality(DOMAIN ClearTimer(authContext).timers) < MaxTimers
  /\ authContext' =
       IF authContext.isAuthenticated
       THEN resetInactivityTimer([authContext EXCEPT !.idle = 0])
       ELSE [authContext EXCEPT !.idle = 0]
  /\ UNCHANGED <<server, entryForm, validation, exported, entriesList, selfDestruct>>

\* Time passes, up to the moment the next timer is due.
TimePasses ==
  /\ \A t \in DOMAIN authContext.timers : authContext.timers[t] > 0
  /\ authContext' =
       [authContext EXCEPT
          !.timers = [t \in DOMAIN authContext.timers |->
                        Max(0, authContext.timers[t] - TickLength)],
          !.idle = Min(INACTIVITY_TIMEOUT, authContext.idle + TickLength)]
  /\ UNCHANGED <<server, entryForm, validation, exported, entriesList, selfDestruct>>

\* A timer is due: its callback calls logout, which awaits signOut.
InactivityTimerFires ==
  /\ \E t \in DOMAIN authContext.timers :
       /\ authContext.timers[t] = 0
       /\ authContext' =
            [authContext EXCEPT
               !.timers = [u \in DOMAIN authContext.timers \ {t} |-> authContext.timers[u]],
               !.signingOut = TRUE]
  /\ UNCHANGED <<server, entryForm, validation, exported, entriesList, selfDestruct>>

\* The user presses the logout button: logout awaits signOut.
Logout ==
  /\ authContext.isAuthenticated
  /\ ~authContext.signingOut
  /\ authContext' = [authContext EXCEPT !.signingOut = TRUE]
  /\ UNCHANGED <<server, entryForm, validation, exported, entriesList, selfDestruct>>

\* signOut resolves: onAuthStateChanged reports null, isAuthenticated becomes
\* false and the cleanup of the effect removes the listeners and clears the
\* timer of the ref.
SignOutReturns ==
  /\ authContext.signingOut
  /\ authContext' =
       ClearTimer([authContext EXCEPT !.isAuthenticated = FALSE, !.signingOut = FALSE])
  /\ UNCHANGED <<server, entryForm, validation, exported, entriesList, selfDestruct>>

\* signOut rejects: the catch block of logout reports "Failed to logout".
SignOutFails ==
  /\ authContext.signingOut
  /\ authContext' = [authContext EXCEPT !.signingOut = FALSE]
  /\ UNCHANGED <<server, entryForm, validation, exported, entriesList, selfDestruct>>

\* ------------------------------------------------------------- SelfDestruct
\* The parent renders SelfDestruct again: when duration or onDestruct
\* changed, the cleanup of the effect cancels the animation frame and the
\* effect starts the timer anew.
ParentRenders ==
  /\ selfDestruct.renders < MaxRenders
  /\ \E duration \in 1..MaxDuration, onDestruct \in {"f", "g"} :
       selfDestruct' =
         IF duration # selfDestruct.duration \/ onDestruct # selfDestruct.onDestruct
         THEN [selfDestruct EXCEPT
                 !.duration = duration, !.onDestruct = onDestruct,
                 !.renders = @ + 1, !.elapsed = 0, !.frame = TRUE]
         ELSE [selfDestruct EXCEPT !.renders = @ + 1]
  /\ UNCHANGED <<server, entryForm, validation, exported, entriesList, authContext>>

\* Time passes.
ClockAdvances ==
  /\ selfDestruct.elapsed < MaxDuration
  /\ selfDestruct' = [selfDestruct EXCEPT !.elapsed = @ + 1]
  /\ UNCHANGED <<server, entryForm, validation, exported, entriesList, authContext>>

\* updateTimer, the animation frame callback: when no time remains it calls
\* onDestruct and hides the component, otherwise it requests the next frame.
updateTimer ==
  /\ selfDestruct.frame
  /\ LET remaining == Max(0, selfDestruct.duration - selfDestruct.elapsed)
     IN  selfDestruct' =
           IF remaining <= 0
           THEN [selfDestruct EXCEPT
                   !.timeLeft = remaining, !.calls = @ + 1,
                   !.isVisible = FALSE, !.frame = FALSE]
           ELSE [selfDestruct EXCEPT !.timeLeft = remaining]
  /\ UNCHANGED <<server, entryForm, validation, exported, entriesList, authContext>>

\* ------------------------------------------------------------- endpoints
PostEntry(p, Candidates) ==
  PostEntryBegin(p, Candidates) \/ PostEntryCheck(p) \/ PostEntryAdd(p)

DeleteEntry(p) == DeleteEntryBegin(p) \/ DeleteEntryGet(p) \/ DeleteEntryDelete(p)

GetEntries(p, Raws, Ids, Terms) ==
  \/ GetEntriesBegin(p, Raws, Ids, Terms)
  \/ GetEntriesScan(p)
  \/ GetEntriesCount(p)
  \/ GetEntriesPage(p)

GetTopics(p, Raws) == GetTopicsBegin(p, Raws) \/ GetTopicsCount(p) \/ GetTopicsPage(p)

CreateTopic(p) == CreateTopicBegin(p) \/ CreateTopicAdd(p)

UpdateTopic(p) == UpdateTopicBegin(p) \/ UpdateTopicUpdate(p)

DeleteTopic(p) == DeleteTopicBegin(p) \/ DeleteTopicQuery(p) \/ DeleteTopicCommit(p)

\* ---------------------------------------------------------- specifications
\* Entry submissions and the administrator's deletions and topic creations
\* arrive at any time and are served concurrently.
Next ==
  \E p \in Procs :
    \/ PostEntry(p, FewCandidates)
    \/ DeleteEntry(p)
    \/ CreateTopic(p)
    \/ DeleteTopic(p)
    \/ StoreFail(p)
    \/ Return(p)

Spec == Init /\ [][Next]_vars

\* Every mutating endpoint, each request handled to completion before the
\* next one arrives (a single process serves them all).
NextSeq ==
  \/ PostEntry(1, FewCandidates)
  \/ DeleteEntry(1)
  \/ CreateTopic(1)
  \/ UpdateTopic(1)
  \/ DeleteTopic(1)
  \/ StoreFail(1)
  \/ Return(1)
  \/ Tick

SpecSeq == Init /\ [][NextSeq]_vars

\* Submissions of every candidate entry and entry deletions, one at a time.
NextUniq ==
  \/ PostEntry(1, AllCandidates)
  \/ DeleteEntry(1)
  \/ CreateTopic(1)
  \/ StoreFail(1)
  \/ Return(1)

SpecUniq == Init /\ [][NextUniq]_vars

\* Listing requests with every raw page and limit, one at a time, while topics
\* are being created.
NextPag ==
  \/ GetEntries(1, RawStrings, {0}, {<<>>, <<"a">>})
  \/ GetTopics(1, RawStrings)
  \/ CreateTopic(1)
  \/ StoreFail(1)
  \/ Return(1)

SpecPag == Init /\ [][NextPag]_vars

\* Listing requests over a collection that grows while time passes, each request
\* handled to completion before the next one arrives.
NextList ==
  \/ GetEntries(1, ListRaws, {0, 1}, {<<>>, <<"a", "B">>, <<"z">>})
  \/ GetTopics(1, ListRaws)
  \/ PostEntryBegin(1, ListCandidates)
  \/ PostEntryCheck(1)
  \/ PostEntryAddUpTo(1, MaxListed)
  \/ CreateTopic(1)
  \/ StoreFail(1)
  \/ Return(1)
  \/ Tick

SpecList == Init /\ [][NextList]_vars

\* Process 1 lists the entries while process 2 serves submissions.
NextListConc ==
  \/ GetEntries(1, {<<>>, <<"2">>}, {0, 1}, {<<>>, <<"z">>})
  \/ PostEntry(2, ListCandidates)
  \/ \E p \in {1, 2} : StoreFail(p) \/ Return(p)

SpecListConc == Init /\ [][NextListConc]_vars

\* A listing of entries served while another process creates and deletes
\* entries.
NextListRace ==
  \/ GetEntries(1, {<<>>, <<"1">>}, {0, 1}, {<<>>, <<"a", "B">>})
  \/ PostEntry(2, ListCandidates)
  \/ DeleteEntry(2)
  \/ \E p \in {1, 2} : StoreFail(p) \/ Return(p)

SpecListRace == Init /\ [][NextListRace]_vars

\* The administrator's topic requests, one at a time, against a store that
\* rejects no operation it is able to perform.
NextTopicAdmin ==
  \/ CreateTopic(1)
  \/ UpdateTopic(1)
  \/ DeleteTopic(1)
  \/ Return(1)
  \/ Tick

SpecTopicAdmin == Init /\ [][NextTopicAdmin]_vars

\* Entries submitted through EntryForm, which asks the Platform-Username
\* Checker first, and entries posted to /api/entries directly.
NextSubmit ==
  \E p \in Procs :
    \/ EntryForm(p)
    \/ PostEntry(p, DirectCandidates)
    \/ StoreFail(p)
    \/ ReturnDirect(p)

SpecSubmit == Init /\ [][NextSubmit]_vars

\* The field validators, run on every combination of the field values.
NextValidate == Validate

SpecValidate == Init /\ [][NextValidate]_vars

\* The CSV export of either list component, on every list of entries.
NextExport ==
  \E component \in {"components/EntriesList",
                    "admin/entries/[topicId]/EntriesList"}, list \in ListsUpTo(ExportEntries, MaxRows) :
    ExportCSV(component, list)

SpecExport == Init /\ [][NextExport]_vars

\* The list of entries of the administrator, who types search terms and turns
\* pages while fetches are in flight.
NextEntriesList == TypeTopicName \/ DebounceFires \/ PageChange \/ FetchReturns

SpecEntriesList == Init /\ [][NextEntriesList]_vars

\* SelfDestruct under a parent that renders it again with other props. Time
\* passes and a requested animation frame is run: the browser sees to that.
NextSelfDestruct == ParentRenders \/ ClockAdvances \/ updateTimer

SpecSelfDestruct ==
  /\ Init
  /\ [][NextSelfDestruct]_vars
  /\ WF_vars(ClockAdvances)
  /\ WF_vars(updateTimer)

\* The inactivity logout of AuthProvider. Time passes, a due timer fires and
\* a pending signOut settles: the event loop of the browser sees to that.
NextAuth ==
  \/ SignIn
  \/ UserActivity
  \/ TimePasses
  \/ InactivityTimerFires
  \/ Logout
  \/ SignOutReturns
  \/ SignOutFails

SpecAuth ==
  /\ Init
  /\ [][NextAuth]_vars
  /\ WF_vars(TimePasses)
  /\ WF_vars(InactivityTimerFires)
  /\ WF_vars(SignOutReturns \/ SignOutFails)

\* ------------------------------------------------------------------ claims
\* Process p leaves the await `at` in this step.
Leaves(p, at) == pc[p] = at /\ pc'[p] # at

\* The step's answer comes from the handler's code, not from its catch block
\* after a rejected store operation.
Answered(p) == pc'[p] = "done" /\ resp'[p].status # 500

\* Stored entry e and candidate d clash on ...
SameWallet(e, d) == e.topicId = d.topicId /\ e.walletAddress = d.walletAddress
SameEmail(e, d) == e.topicId = d.topicId /\ e.email = d.email
SamePair(e, d) ==
  /\ e.topicId = d.topicId
  /\ e.telegramUsername = d.telegramUsername
  /\ e.platformUsername = d.platformUsername

\* The candidate's data, as stored under another topic.
Twin(e, d) ==
  /\ e.topicId # d.topicId
  /\ e.walletAddress = d.walletAddress
  /\ e.email = d.email
  /\ e.telegramUsername = d.telegramUsername
  /\ e.platformUsername = d.platformUsername

Stored == {entries[i] : i \in DOMAIN entries}

\* C1: with requests handled one at a time, no two distinct stored entries of
\* the same topic share a wallet address, an email, or a (telegram username,
\* platform username) pair.
C1_PerTopicUnique ==
  \A i \in DOMAIN entries : \A j \in DOMAIN entries :
    i # j => /\ ~SameWallet(entries[i], entries[j])
             /\ ~SameEmail(entries[i], entries[j])
             /\ ~SamePair(entries[i], entries[j])

\* Two entries of one topic are stored, with the same telegram username and
\* different platform usernames, the second one just accepted.
C1_Witness ==
  /\ pc[1] = "done" /\ req[1].ep = "POST /entries" /\ resp[1].status = 201
  /\ \E i \in DOMAIN entries : \E j \in DOMAIN entries :
       /\ i # j
       /\ entries[i].topicId = entries[j].topicId
       /\ entries[i].telegramUsername = entries[j].telegramUsername
       /\ entries[i].platformUsername # entries[j].platformUsername

\* C2: the duplicate check is not repeated at the write. A submission that
\* passed its check is stored and answered 201 even when an entry of the same
\* topic with the same wallet address has been stored since the check.
C2_WriteIsUnchecked ==
  [][\A p \in Procs :
       (/\ Leaves(p, "pe_add")
        /\ Answered(p)
        /\ \E e \in Stored : SameWallet(e, local[p]))
       => /\ resp'[p].status = 201
          /\ resp'[p].id \notin DOMAIN entries
          /\ DOMAIN entries' = DOMAIN entries \cup {resp'[p].id}
          /\ entries'[resp'[p].id] = local[p]]_vars

\* Both concurrent submissions were answered 201 and the store holds two
\* entries of one topic with the same wallet address.
C2_Witness ==
  /\ \A p \in {1, 2} : pc[p] = "done" /\ req[p].ep = "POST /entries" /\ resp[p].status = 201
  /\ resp[1].id # resp[2].id
  /\ {resp[1].id, resp[2].id} \subseteq DOMAIN entries
  /\ SameWallet(entries[resp[1].id], entries[resp[2].id])

\* The error the fixed precedence wallet, email, pair assigns to candidate d.
ExpectedConflict(d) ==
  IF \E e \in Stored : SameWallet(e, d) THEN "This wallet address has already been used for this topic"
  ELSE IF \E e \in Stored : SameEmail(e, d) THEN "This email address has already been used for this topic"
  ELSE IF \E e \in Stored : SamePair(e, d) THEN "You have already submitted an entry for this topic"
  ELSE "none"

\* C3: when the duplicate check runs on a candidate that conflicts with the
\* stored entries of its topic, the answer is 400 with the one error the
\* precedence wallet, email, pair selects, and the store is left as it was.
C3_ConflictPrecedence ==
  [][\A p \in Procs :
       (Leaves(p, "pe_query") /\ ExpectedConflict(req[p].data) # "none")
       => /\ pc'[p] = "done"
          /\ Answered(p) => resp'[p] = [status |-> 400, error |-> ExpectedConflict(req[p].data)]
          /\ UNCHANGED store]_vars

\* A candidate equal in wallet, email and pair to a stored entry of its topic
\* was answered with the wallet error.
C3_Witness ==
  /\ pc[1] = "done" /\ req[1].ep = "POST /entries"
  /\ resp[1] = [status |-> 400, error |-> "This wallet address has already been used for this topic"]
  /\ \E e \in Stored :
       SameWallet(e, req[1].data) /\ SameEmail(e, req[1].data) /\ SamePair(e, req[1].data)

\* C4: a valid candidate whose data is stored under another topic, and which
\* conflicts with no entry of its own topic, passes the duplicate check, and
\* its write stores it and answers 201.
C4_PerTopicScope ==
  [][\A p \in Procs :
       LET d == req[p].data
       IN  /\ (/\ Leaves(p, "pe_query")
               /\ Answered(p) \/ pc'[p] # "done"
               /\ \E e \in Stored : Twin(e, d)
               /\ ExpectedConflict(d) = "none")
              => pc'[p] = "pe_add" /\ UNCHANGED store
           /\ (/\ Leaves(p, "pe_add")
               /\ Answered(p)
               /\ \E e \in Stored : Twin(e, d))
              => /\ resp'[p].status = 201
                 /\ resp'[p].id \in DOMAIN entries' \ DOMAIN entries
                 /\ entries'[resp'[p].id].topicId = d.topicId
                 /\ Twin(entries'[resp'[p].id], CHOOSE e \in Stored : Twin(e, d))]_vars

\* Topics 1 and 2 exist and hold the same submission, the second one just
\* accepted.
C4_Witness ==
  /\ pc[1] = "done" /\ req[1].ep = "POST /entries" /\ resp[1].status = 201
  /\ {1, 2} \subseteq DOMAIN topics
  /\ \E i \in DOMAIN entries :
       /\ i # resp[1].id
       /\ resp[1].id \in DOMAIN entries
       /\ Twin(entries[i], entries[resp[1].id])

\* C5: an entry is written only while a topic with its topicId exists.
C5_TopicExistsAtWrite ==
  [][\A i \in DOMAIN entries' \ DOMAIN entries : entries'[i].topicId \in DOMAIN topics]_vars

\* DELETE /topics {id: T} by process p commits and answers 200 in this step.
Deleted(p) == Leaves(p, "dt_commit") /\ pc'[p] = "done" /\ resp'[p].status = 200

\* C6: with requests handled one at a time, when DELETE /topics {id: T} has
\* answered 200 the store holds neither topic T nor an entry of topic T, and
\* the listing of T's entries is empty with total 0.
C6_CascadePostcondition ==
  [][\A p \in Procs :
       Deleted(p) =>
         LET T == req[p].id
             matching == {i \in DOMAIN entries' : entries'[i].topicId = T}
         IN  /\ T \notin DOMAIN topics'
             /\ \A i \in DOMAIN entries' : entries'[i].topicId # T
             /\ Cardinality(matching) = 0
             /\ slice(OrderByCreatedAtDesc(entries', matching), 0, DEFAULT_PAGE_SIZE) = <<>>]_vars

\* A topic that was created, with entries, has been deleted with answer 200.
C6_Witness ==
  /\ pc[1] = "done" /\ req[1].ep = "DELETE /topics" /\ resp[1].status = 200
  /\ req[1].id < nextTopicId
  /\ local[1].entriesSnapshot # {}
  /\ req[1].id \notin DOMAIN topics
  /\ \A i \in DOMAIN entries : entries[i].topicId # req[1].id

\* C7: when DELETE /topics {id: T} of a stored topic T answers 200, no entry
\* of topic T is left, whatever other requests run meanwhile.
C7_NoOrphanAfterDelete ==
  [][\A p \in Procs :
       (Deleted(p) /\ req[p].id \in DOMAIN topics)
       => \A i \in DOMAIN entries' : entries'[i].topicId # req[p].id]_vars

\* C8: the step that ends a topic deletion either removes the topic document
\* and every entry of its entry query, and nothing else, or (answer 500)
\* leaves both collections as they were.
C8_AllOrNothing ==
  [][\A p \in Procs :
       Leaves(p, "dt_commit") =>
         LET T == req[p].id
             S == local[p].entriesSnapshot
         IN  \/ /\ resp'[p].status = 200
                /\ DOMAIN topics' = DOMAIN topics \ {T}
                /\ DOMAIN entries' = DOMAIN entries \ S
                /\ \A t \in DOMAIN topics' : topics'[t] = topics[t]
                /\ \A i \in DOMAIN entries' : entries'[i] = entries[i]
             \/ /\ resp'[p].status = 500
                /\ topics' = topics
                /\ entries' = entries]_vars

\* A batch commit failed: the answer is 500 and the topic and the entries of
\* the entry query are all still stored.
C8_Witness ==
  \E p \in Procs :
    /\ pc[p] = "done" /\ req[p].ep = "DELETE /topics" /\ resp[p].status = 500
    /\ local[p].at = "commit"
    /\ local[p].entriesSnapshot # {}
    /\ req[p].id \in DOMAIN topics
    /\ local[p].entriesSnapshot \subseteq DOMAIN entries

\* C9: with requests handled one at a time, DELETE /topics for an id that
\* matches no topic answers 200 and leaves the topics as they were; when no
\* entry names the id either (as after a first DELETE of it) the whole store
\* is left as it was.
C9_DeleteIdempotent ==
  [][\A p \in Procs :
       (Leaves(p, "dt_commit") /\ Answered(p) /\ req[p].id \notin DOMAIN topics)
       => /\ resp'[p].status = 200
          /\ topics' = topics
          /\ (\A i \in DOMAIN entries : entries[i].topicId # req[p].id) => UNCHANGED store]_vars

\* A DELETE for a topic id the store never assigned was answered 200.
C9_Witness ==
  /\ pc[1] = "done" /\ req[1].ep = "DELETE /topics" /\ resp[1].status = 200
  /\ req[1].id >= nextTopicId
  /\ topics # Empty

\* The listing requests that passed authorization.
IsListing(r) ==
  \/ r.ep = "GET /topics"
  \/ r.ep = "GET /entries" /\ r.auth

\* C10: for every raw page and limit, the parameters a listing handler works
\* with have page >= 1 (1 when the raw page is absent, unparsable or below 1),
\* 1 <= limit <= 100 (10 when the raw limit is absent or unparsable) and
\* offset = (page - 1) * limit, and a 200 listing response reports that page
\* and limit.
C10_PaginationParams ==
  \A p \in Procs :
    IsListing(req[p]) =>
      LET rawPage == ParseInt(req[p].page)
          rawLimit == ParseInt(req[p].limit)
          pg == local[p]
      IN  /\ pg.page >= 1
          /\ (rawPage.nan \/ rawPage.val < 1) => pg.page = 1
          /\ (~rawPage.nan /\ rawPage.val >= 1) => pg.page = rawPage.val
          /\ pg.limit >= 1 /\ pg.limit <= 100
          /\ rawLimit.nan => pg.limit = 10
          /\ pg.offset = (pg.page - 1) * pg.limit
          /\ (pc[p] = "done" /\ resp[p].status = 200)
             => /\ resp[p].pagination.page = pg.page
                /\ resp[p].pagination.limit = pg.limit

\* A listing asked for page "-1" and limit "999" was answered with page 1
\* and limit 100.
C10_Witness ==
  /\ pc[1] = "done" /\ req[1].ep = "GET /topics" /\ resp[1].status = 200
  /\ req[1].page = <<"-", "1">> /\ req[1].limit = <<"9", "9", "9">>
  /\ resp[1].pagination.page = 1 /\ resp[1].pagination.limit = 100
  /\ topics # Empty

\* Process p holds a 200 listing response.
Listed(p) ==
  /\ pc[p] = "done"
  /\ req[p].ep \in {"GET /entries", "GET /topics"}
  /\ resp[p].status = 200

\* n is the least number of pages of `limit` items that hold `total` items.
IsPageCount(n, total, limit) ==
  /\ n >= 0
  /\ n * limit >= total
  /\ n > 0 => (n - 1) * limit < total

\* C11 (as stated): in every listing response totalPages = ceil(total / limit),
\* and a response with total = 0 has totalPages = 0 and no items; a listing
\* request is answered 200 unless a store operation fails.
C11_EveryListing ==
  \A p \in Procs :
    /\ Listed(p) =>
         LET pn == resp[p].pagination
         IN  /\ IsPageCount(pn.totalPages, pn.total, pn.limit)
             /\ pn.total = 0 => pn.totalPages = 0 /\ resp[p].items = <<>>
    /\ (pc[p] = "done" /\ IsListing(req[p]) /\ resp[p].status # 500) => resp[p].status = 200

\* Process p sends the response of a listing in this step (store failures
\* aside).
Lists(p) ==
  /\ pc[p] \in {"ge_scan", "ge_page", "gt_page"}
  /\ pc'[p] = "done"
  /\ resp'[p].status # 500

\* The documents the store-assisted query of p's request selects now.
Matching(p) ==
  IF req[p].ep = "GET /topics" THEN TopicsQuery(topics, req[p].type)
  ELSE EntriesQuery(entries, req[p].topicId)

\* C11 (amended): in every listing response totalPages = ceil(total / limit)
\* and the status is 200; with total = 0 the response has totalPages = 0, and
\* it has no items for every requested page provided the matching set is
\* still empty when the page query runs (in the store-assisted mode the count
\* and the page are two separate reads).
C11_TotalPages ==
  [][\A p \in Procs :
       Lists(p) =>
         LET pn == resp'[p].pagination
         IN  /\ resp'[p].status = 200
             /\ IsPageCount(pn.totalPages, pn.total, pn.limit)
             /\ pn.total = 0 => pn.totalPages = 0
             /\ (pn.total = 0 /\ (pc[p] = "ge_scan" \/ Matching(p) = {}))
                => resp'[p].items = <<>>]_vars

\* Page 2 of an empty topic was asked for while another topic has entries:
\* the answer is 200 with total 0, no pages and no items.
C11_Witness ==
  /\ Listed(1)
  /\ req[1].ep = "GET /entries" /\ req[1].page = <<"2">> /\ req[1].topicId = 1
  /\ entries # Empty
  /\ resp[1].pagination.total = 0
  /\ resp[1].pagination.totalPages = 0
  /\ resp[1].pagination.page = 2
  /\ resp[1].items = <<>>

\* The request of process p is served by the in-memory topicName path.
InMemoryMode(p) ==
  req[p].ep = "GET /entries" /\ req[p].topicName # <<>> /\ req[p].topicId = 0

\* Topic name `name` contains `term`, letter case ignored.
NameMatches(name, term) ==
  \E k \in 0..(Len(name) - Len(term)) :
    \A j \in 1..Len(term) : LowerChar(name[k + j]) = LowerChar(term[j])

\* The stored documents the request of process p is about.
MatchingSet(p) ==
  IF req[p].ep = "GET /topics"
    THEN {t \in DOMAIN topics : req[p].type = "active" => topics[t].isActive}
  ELSE IF InMemoryMode(p)
    THEN {i \in DOMAIN entries : NameMatches(entries[i].topicName, req[p].topicName)}
  ELSE {i \in DOMAIN entries : req[p].topicId # 0 => entries[i].topicId = req[p].topicId}

\* The matching set in the order the delivery mode of p's request lists it.
ListingOrder(p) ==
  IF req[p].ep = "GET /topics" THEN OrderByCreatedAtDesc(topics, MatchingSet(p))
  ELSE IF InMemoryMode(p) THEN AscendingIds(MatchingSet(p))
  ELSE OrderByCreatedAtDesc(entries, MatchingSet(p))

\* The ids of the items of p's response, in order.
ItemIds(p) == [k \in 1..Len(resp[p].items) |-> resp[p].items[k].id]

\* C12: with no write between the request and its response, a listing for
\* page p and limit l over a matching set of size total returns exactly
\* min(l, max(0, total - (p - 1) * l)) items, in both delivery modes: they are
\* the items at positions (p - 1) * l + 1 .. of one enumeration of the matching
\* set that has every matching document exactly once, so that the pages
\* 1..totalPages partition the matching set.
C12_PageSizes ==
  \A p \in Procs :
    Listed(p) =>
      LET pn == resp[p].pagination
          order == ListingOrder(p)
          n == Min(pn.limit, Max(0, pn.total - (pn.page - 1) * pn.limit))
      IN  /\ pn.total = Cardinality(MatchingSet(p))
          /\ Len(resp[p].items) = n
          /\ Len(order) = pn.total
          /\ {order[k] : k \in 1..Len(order)} = MatchingSet(p)
          /\ ItemIds(p) = [k \in 1..n |-> order[(pn.page - 1) * pn.limit + k]]
          /\ \A q \in 1..pn.totalPages : (q - 1) * pn.limit + 1 <= pn.total
          /\ pn.totalPages * pn.limit >= pn.total

\* Three entries are stored and page 2 with limit 2 was answered with the one
\* remaining entry out of totalPages = 2.
C12_Witness ==
  /\ Listed(1) /\ req[1].ep = "GET /entries"
  /\ resp[1].pagination.total = 3
  /\ resp[1].pagination.limit = 2
  /\ resp[1].pagination.page = 2
  /\ resp[1].pagination.totalPages = 2
  /\ Len(resp[1].items) = 1

\* The entries whose topic name contains the search term of p's request.
NameMatched(p) ==
  {i \in DOMAIN entries : NameMatches(entries[i].topicName, req[p].topicName)}

\* C13: in the in-memory mode (topicName given, topicId not) the answer is 200,
\* total is the number of entries whose topicName contains the term with case
\* ignored, and the k-th returned entry is the matching entry that has exactly
\* offset + k - 1 matching entries before it in the fetched list: the page is
\* cut from the filtered list, and a term that matches nothing gives total 0
\* and no entries.
C13_InMemoryFilter ==
  \A p \in Procs :
    (/\ pc[p] = "done" /\ req[p].ep = "GET /entries" /\ req[p].auth
     /\ InMemoryMode(p)
     /\ resp[p].status # 500) =>
      LET pn == resp[p].pagination
          offset == (pn.page - 1) * pn.limit
          M == NameMatched(p)
          before(i) == Cardinality({j \in M : j < i})
      IN  /\ resp[p].status = 200
          /\ pn.total = Cardinality(M)
          /\ Len(resp[p].items) = Min(pn.limit, Max(0, Cardinality(M) - offset))
          /\ \A k \in 1..Len(resp[p].items) :
               /\ resp[p].items[k].id \in M
               /\ before(resp[p].items[k].id) = offset + k - 1
               /\ resp[p].items[k].doc = entries[resp[p].items[k].id]
          /\ M = {} => pn.total = 0 /\ resp[p].items = <<>>

\* The first fetched entry does not match "aB"; page 1 with limit 1 returned
\* the first matching entry, whose topic name is "Ab".
C13_Witness ==
  /\ Listed(1) /\ InMemoryMode(1)
  /\ req[1].topicName = <<"a", "B">>
  /\ resp[1].pagination.limit = 1 /\ resp[1].pagination.page = 1
  /\ 1 \in DOMAIN entries /\ entries[1].topicName = <<"c">>
  /\ Len(resp[1].items) = 1
  /\ resp[1].items[1].id # 1
  /\ resp[1].items[1].doc.topicName = <<"A", "b">>

\* C14: every listing, store-assisted or in-memory, returns its items ordered
\* by createdAt descending, ties broken by store-assigned id ascending.
C14_OrderedListing ==
  \A p \in Procs :
    Listed(p) =>
      \A k \in 1..(Len(resp[p].items) - 1) :
        LET a == resp[p].items[k]
            b == resp[p].items[k + 1]
        IN  \/ a.doc.createdAt > b.doc.createdAt
            \/ a.doc.createdAt = b.doc.createdAt /\ a.id < b.id

\* The in-memory part of C14 alone: a topicName search returns its entries
\* with createdAt never increasing.
C14_InMemoryNewestFirst ==
  \A p \in Procs :
    (Listed(p) /\ InMemoryMode(p)) =>
      \A k \in 1..(Len(resp[p].items) - 1) :
        resp[p].items[k].doc.createdAt >= resp[p].items[k + 1].doc.createdAt

\* C15: a GET /entries with both topicId and topicName is answered from the
\* entries whose topicId equals the given one, whatever their topic names:
\* total counts them all and every returned entry is one of them.
C15_TopicIdWins ==
  \A p \in Procs :
    (/\ pc[p] = "done" /\ req[p].ep = "GET /entries" /\ req[p].auth
     /\ req[p].topicId # 0 /\ req[p].topicName # <<>>
     /\ resp[p].status # 500) =>
      LET pn == resp[p].pagination
          OfTopic == {i \in DOMAIN entries : entries[i].topicId = req[p].topicId}
      IN  /\ resp[p].status = 200
          /\ pn.total = Cardinality(OfTopic)
          /\ Len(resp[p].items) = Min(pn.limit, Max(0, Cardinality(OfTopic) - (pn.page - 1) * pn.limit))
          /\ \A k \in 1..Len(resp[p].items) : resp[p].items[k].id \in OfTopic
          /\ \A k \in 1..Len(resp[p].items) : \A j \in 1..Len(resp[p].items) :
               k # j => resp[p].items[k].id # resp[p].items[j].id

\* Topic 1 was listed with the search term "z", which no topic name contains:
\* both entries of topic 1 were returned, the entry of topic 2 was not.
C15_Witness ==
  /\ Listed(1) /\ req[1].ep = "GET /entries"
  /\ req[1].topicId = 1 /\ req[1].topicName = <<"z">>
  /\ Cardinality(DOMAIN entries) = 3
  /\ resp[1].pagination.total = 2
  /\ Len(resp[1].items) = 2
  /\ \A k \in 1..2 : resp[1].items[k].doc.topicName = <<"A", "b">>

\* The endpoints that write to the store and require an administrator.
AdminWrites == {"DELETE /entries", "POST /topics", "PATCH /topics", "DELETE /topics"}

\* A request arrives at process p in this step.
Arrives(p) == pc[p] = "idle" /\ pc'[p] # "idle"

\* C16: a DELETE /entries or POST, PATCH, DELETE /topics request whose
\* authorization check yields no verified admin is answered 401 on arrival and
\* writes nothing; every change of the topics or entries collection is made by
\* a step of a POST /entries request or of a request that passed the check.
C16_AuthorizationGate ==
  [][/\ \A p \in Procs :
          (Arrives(p) /\ req'[p].ep \in AdminWrites /\ ~req'[p].auth)
          => /\ pc'[p] = "done"
             /\ resp'[p] = [status |-> 401, error |-> "Unauthorized"]
             /\ UNCHANGED store
     /\ <<topics, entries>> # <<topics', entries'>>
        => \E p \in Procs :
             /\ pc[p] \notin {"idle", "done"} /\ pc'[p] # pc[p]
             /\ req'[p] = req[p]
             /\ IF req[p].ep = "POST /entries" THEN TRUE ELSE req[p].auth]_vars

\* An unauthorized DELETE /topics for a stored topic that has an entry was
\* answered 401, and the topic and the entry are still there.
C16_Witness ==
  /\ pc[1] = "done"
  /\ req[1] = [ep |-> "DELETE /topics", auth |-> FALSE]
  /\ resp[1].status = 401
  /\ \E i \in DOMAIN entries : entries[i].topicId \in DOMAIN topics

\* The store operation process p awaits is rejected in this step and the catch
\* block of DELETE /entries answers.
DeleteEntryFails(p) == pc'[p] = "done" /\ resp'[p].status \in {401, 500}

\* C17: with requests handled one at a time, an authorized DELETE /entries
\* {id} without an id is answered 400 and changes nothing; for an id that names
\* no entry the lookup answers 404 and the store is unchanged; for an id that
\* names an entry the answer is 200 and exactly that entry is removed.
C17_DeleteEntry ==
  [][\A p \in Procs :
       /\ (Arrives(p) /\ req'[p].ep = "DELETE /entries" /\ req'[p].auth /\ req'[p].id = 0)
          => /\ pc'[p] = "done" /\ resp'[p].status = 400
             /\ UNCHANGED store
       /\ (Leaves(p, "de_get") /\ ~DeleteEntryFails(p))
          => /\ UNCHANGED store
             /\ IF req[p].id \in DOMAIN entries
                THEN pc'[p] = "de_delete"
                ELSE pc'[p] = "done" /\ resp'[p].status = 404
       /\ (Leaves(p, "de_delete") /\ ~DeleteEntryFails(p))
          => /\ pc'[p] = "done" /\ resp'[p].status = 200
             /\ req[p].id \in DOMAIN entries
             /\ DOMAIN entries' = DOMAIN entries \ {req[p].id}
             /\ \A i \in DOMAIN entries' : entries'[i] = entries[i]
             /\ topics' = topics]_vars

\* One of two stored entries was deleted with answer 200; the other one is
\* still stored.
C17_Witness ==
  /\ pc[1] = "done" /\ req[1].ep = "DELETE /entries" /\ resp[1].status = 200
  /\ req[1].id < nextEntryId
  /\ req[1].id \notin DOMAIN entries
  /\ nextEntryId = 3
  /\ Cardinality(DOMAIN entries) = 1

\* C18: the step that stores the topic of a POST /topics stores it under a new
\* id with isActive = true, the body's name and description and the creation
\* time the handler took, whatever else the body holds, and answers 201 with
\* that id and the stored fields.
C18_CreatedActive ==
  [][\A p \in Procs :
       (Leaves(p, "ct_add") /\ Answered(p)) =>
         LET id == resp'[p].id
         IN  /\ resp'[p].status = 201
             /\ id \notin DOMAIN topics
             /\ DOMAIN topics' = DOMAIN topics \cup {id}
             /\ topics'[id].isActive = TRUE
             /\ topics'[id].name = req[p].body.name
             /\ topics'[id].description = req[p].body.description
             /\ topics'[id].createdAt <= now
             /\ resp'[p].topic.isActive = TRUE
             /\ resp'[p].topic.createdAt = topics'[id].createdAt
             /\ resp'[p].topic = topics'[id]]_vars

\* A POST /topics whose body says isActive: false was answered 201 after time
\* had passed; the stored topic is active.
C18_Witness ==
  /\ pc[1] = "done" /\ req[1].ep = "POST /topics" /\ resp[1].status = 201
  /\ req[1].body.isActive = "false"
  /\ resp[1].id \in DOMAIN topics
  /\ topics[resp[1].id].isActive
  /\ topics[resp[1].id].createdAt > 0
  /\ resp[1].topic.isActive

\* C19: a PATCH /topics answered 200 changes the isActive field of the
\* addressed topic to the requested value and nothing else in the store; and
\* in every step, a topic that stays stored keeps its name, description and
\* createdAt, and an entry that stays stored keeps all its fields.
C19_Frame ==
  [][/\ \A p \in Procs :
          (Leaves(p, "ut_update") /\ pc'[p] = "done" /\ resp'[p].status = 200)
          => LET id == req[p].body.id
             IN  /\ DOMAIN topics' = DOMAIN topics
                 /\ id \in DOMAIN topics
                 /\ topics'[id].isActive = req[p].body.isActive
                 /\ \A t \in DOMAIN topics \ {id} : topics'[t] = topics[t]
                 /\ entries' = entries
     /\ \A t \in DOMAIN topics \cap DOMAIN topics' :
          /\ topics'[t].name = topics[t].name
          /\ topics'[t].description = topics[t].description
          /\ topics'[t].createdAt = topics[t].createdAt
     /\ \A i \in DOMAIN entries \cap DOMAIN entries' : entries'[i] = entries[i]]_vars

\* A topic created at time 0 was switched off at time 1 with answer 200: its
\* name and createdAt are as created, and an entry is stored.
C19_Witness ==
  /\ pc[1] = "done" /\ req[1].ep = "PATCH /topics" /\ resp[1].status = 200
  /\ req[1].body.id \in DOMAIN topics
  /\ ~topics[req[1].body.id].isActive
  /\ topics[req[1].body.id].name = "Alpha"
  /\ topics[req[1].body.id].createdAt < now
  /\ entries # Empty

\* C20: an authorized PATCH /topics {id, isActive} whose id matches no topic
\* is answered 404, creates no topic document and leaves the store unchanged.
C20_PatchAbsentIs404 ==
  [][\A p \in Procs :
       (Leaves(p, "ut_update") /\ req[p].body.id \notin DOMAIN topics)
       => /\ pc'[p] = "done"
          /\ resp'[p].status = 404
          /\ UNCHANGED store]_vars

\* C21: whenever the store operation a handler awaits is rejected, whatever
\* the text of the error, the request is answered 500 and the store is left
\* as it was.
C21_StoreFailureIs500 ==
  [][\A p \in Procs :
       StoreFail(p) => /\ resp'[p].status = 500
                       /\ UNCHANGED store]_vars

\* C22: every stored entry carries a platformUsername that the
\* Platform-Username Checker accepts, however the entry was submitted.
C22_CheckedBeforeStored ==
  \A i \in DOMAIN entries :
    validatePlatformUsername(Spelling(entries[i].platformUsername))

\* C23: when the Platform-Username Checker cannot be reached or fails, the
\* submission ends without an entry being sent, with an error message that is
\* not the "invalid platform username" rejection.
C23_CheckerFailureIsDistinct ==
  [][ValidationFails =>
       /\ entryForm'.at = "editing"
       /\ ~entryForm'.isSuccess
       /\ entryForm'.submitError \notin
            {"", "Invalid platform username. Please check the format and try again."}]_vars

\* C24: an empty or absent Discord value passes the form's validator and the
\* server's schema; an empty required field gets its "required" reason, and
\* no other, from both; the form's error mapping has no key for a field that
\* passes.
C24_EmptyFields ==
  validation.ran =>
    LET v == validation.values
        Required == [telegramUsername |-> "Telegram username is required",
                     platformUsername |-> "Platform username is required",
                     walletAddress |-> "Wallet address is required",
                     email |-> "Email is required"]
        IsEmpty(f) == IF f = "walletAddress" THEN v[f] = "" ELSE v[f] = <<>>
    IN  /\ v.discordUsername = <<>> =>
             /\ validation.reasons.discordUsername = ""
             /\ validation.issues.discordUsername = {}
             /\ "discordUsername" \notin DOMAIN validation.errors
        /\ \A f \in DOMAIN Required :
             IsEmpty(f) => /\ validation.reasons[f] = Required[f]
                           /\ validation.errors[f] = Required[f]
                           /\ validation.issues[f] = {Required[f]}
        /\ \A f \in DOMAIN validation.errors : validation.errors[f] # ""

\* C25: the exported file has, after its header, one row per entry in list
\* order, and every row holds topic name, telegram username, platform
\* username, wallet address, discord username (empty when absent), email and
\* submission date, in this order.
C25_CsvRows ==
  exported.component # "none" =>
    /\ Len(exported.csv) = 1 + Len(exported.entries)
    /\ \A r \in 1..Len(exported.entries) :
         LET e == exported.entries[r]
             Quoted(v) == <<"\"", v, "\"">>
         IN  exported.csv[r + 1] =
               << Quoted(e.topicName), Quoted(e.telegramUsername),
                  Quoted(e.platformUsername), Quoted(e.walletAddress),
                  IF "discordUsername" \in DOMAIN e THEN Quoted(e.discordUsername) ELSE <<>>,
                  Quoted(e.email), Quoted(format(e.createdAt)) >>

\* C26 (as stated): every 200 response of GET /entries has at most limit
\* items and at most pagination.total items.
C26_AtMostTotal ==
  \A p \in Procs :
    (Listed(p) /\ req[p].ep = "GET /entries") =>
      /\ Len(resp[p].items) <= resp[p].pagination.limit
      /\ Len(resp[p].items) <= resp[p].pagination.total

\* C26 (amended): a 200 response of GET /entries has at most limit items and
\* at most as many as entries match when the page is read; pagination.total is
\* the number of entries that matched at one point, namely when the count
\* query (in the in-memory mode, the scan) was answered.
C26_TotalAtCount ==
  [][\A p \in Procs :
       /\ (pc[p] = "ge_count" /\ pc'[p] = "ge_page")
            => local'[p].total = Cardinality(MatchingSet(p))
       /\ (pc[p] \in {"ge_scan", "ge_page"} /\ pc'[p] = "done" /\ resp'[p].status = 200)
            => /\ Len(resp'[p].items) <= resp'[p].pagination.limit
               /\ Len(resp'[p].items) <= Cardinality(MatchingSet(p))
               /\ resp'[p].pagination.total =
                    IF pc[p] = "ge_page" THEN local[p].total
                    ELSE Cardinality(MatchingSet(p))]_vars

\* The only entry of topic 1 was deleted between the count query and the page
\* query of a listing: the response has total 1 and no items on page 1.
C26_Witness ==
  /\ Listed(1)
  /\ req[1].ep = "GET /entries" /\ req[1].topicId = 1
  /\ resp[1].pagination.page = 1
  /\ resp[1].pagination.total = 1
  /\ resp[1].items = <<>>

\* C27: an entry is never stored for a topic that is inactive at the time of
\* the write.
C27_ActiveAtWrite ==
  [][\A i \in DOMAIN entries' \ DOMAIN entries :
       entries'[i].topicId \in DOMAIN topics => topics[entries'[i].topicId].isActive]_vars

\* C28: once no fetch is outstanding, the list shows the response to the
\* request issued last.
C28_LatestRequestShown ==
  entriesList.inflight = {} => entriesList.shown.id = entriesList.issued

\* C29: at most one inactivity timer is pending, and none while the user is
\* not authenticated; when a timer fires and logs the user out, no activity
\* event occurred during the INACTIVITY_TIMEOUT before; and an authenticated
\* user who produces no activity event is eventually logged out.
C29_InactivityLogout ==
  /\ [](/\ Cardinality(DOMAIN authContext.timers) <= 1
        /\ ~authContext.isAuthenticated => authContext.timers = <<>>)
  /\ [][InactivityTimerFires =>
          authContext.isAuthenticated /\ authContext.idle = INACTIVITY_TIMEOUT]_vars
  /\ []<>(~authContext.isAuthenticated \/ authContext.idle < INACTIVITY_TIMEOUT)

\* C30: a mounted SelfDestruct eventually is invisible and then stays
\* invisible; onDestruct is invoked once, in the step that hides the
\* component, whatever props the parent renders it with.
C30_DestructOnce ==
  /\ <>[](~selfDestruct.isVisible)
  /\ [][~selfDestruct.isVisible => ~selfDestruct'.isVisible]_vars
  /\ [][selfDestruct'.calls # selfDestruct.calls =>
          /\ selfDestruct.isVisible /\ ~selfDestruct'.isVisible
          /\ selfDestruct'.calls = 1]_vars

====
